---- MODULE Spec2Model ----
(***************************************************************************)
(* Place-search aggregation and ranking pipeline of the map application:   *)
(* services/api.ts (searchLocations, searchLocationsExtended,               *)
(* searchByCategory, searchLocationsByDistanceAndPopularity), the          *)
(* ModernPlacesAPI adapter, convertToLocation, and the GoogleMap           *)
(* component's initMap and performSearch.                                  *)
(*                                                                         *)
(* Coordinates are integer kilometre offsets on the local tangent plane;   *)
(* a score is kept as the integer 50 * score so that no fraction is lost.  *)
(***************************************************************************)
EXTENDS Integers, Sequences, FiniteSets, TLC

(***************************************************************************)
(* Bounds of the model                                                     *)
(***************************************************************************)
\* longest list one provider call resolves with in the aggregated searches
MaxResp == 1
\* longest query, in tokens
MaxQueryLen == 1
\* text searches the map component starts
MaxSearches == 2
\* pages the provider delivers to one text search
MaxPages == 2
\* largest page the provider delivers
MaxPageSize == 81
\* largest distance, in km, the score is computed for
MaxDistanceKm == 60
\* calls of the adapter
MaxAdapterCalls == 2
\* most type tags of a record handed to convertToLocation
MaxTags == 2
\* the longest query handed to the classifiers, in words
MaxClassifyLen == 2
\* runs of initMap that go past the key check
MaxInits == 2
\* the longest text of the search box, in characters
MaxInputLen == 2
\* calls of getSuggestions awaiting a provider at one time
MaxSuggesting == 1
\* the step of the clock, in ms
TickMs == 100
\* locations the user selects
MaxSelections == 3
\* directions requests
MaxRouteCalls == 2
\* times the sidebar is opened
MaxSidebarMounts == 2

(***************************************************************************)
(* Program constants                                                       *)
(***************************************************************************)
\* config.app.maxSearchResults
maxSearchResults == 80
\* calculateScore: the score falls linearly to zero at 50 km
ScoreRangeKm == 50
\* ModernPlacesAPI.textSearch: no further page once 60 records are held
\* config.app.searchDebounceMs
searchDebounceMs == 300
paginationLimit == 60

\* JavaScript's undefined, for an optional string
NONE == "undefined"

(***************************************************************************)
(* Provider records (GeocodingResult) the adapter can hand to a strategy.  *)
(* place_id "" is the adapter's value for a missing identifier.            *)
(***************************************************************************)
PlaceIds == {"", "p1", "p2"}
\* where a place can be and how it is rated: 10 km from the centre, and two
\* places beyond the 50 km range at different distances
Spots ==
    {[lat |-> 10, lng |-> 0, rating |-> 1],
     [lat |-> 60, lng |-> 0, rating |-> 5],
     [lat |-> 0, lng |-> 55, rating |-> 1]}
TypeLists == {<<>>, <<"park">>, <<"lodging", "food">>}

GeocodingResult ==
    {[place_id |-> i, lat |-> s.lat, lng |-> s.lng, types |-> t,
      rating |-> s.rating] : i \in PlaceIds, s \in Spots, t \in TypeLists}

\* what a provider call of the distance search can resolve with
Responses == UNION {[1..n -> GeocodingResult] : n \in 0..MaxResp}

\* searchLocations, searchLocationsExtended and searchByCategory never read
\* the coordinates: their provider calls resolve with records at one place
PlainResponses ==
    UNION {[1..n -> {r \in GeocodingResult : r.lat = 10 /\ r.lng = 0}] :
              n \in 0..MaxResp}

\* viewport bounds; NoBounds is an absent bounds argument
NoBounds == [sw |-> <<0, 0>>, ne |-> <<-1, -1>>]
BoundsChoices == {NoBounds, [sw |-> <<-20, -20>>, ne |-> <<20, 20>>]}

\* the reference coordinate; NoLocation is an absent location argument
NoLocation == <<>>
Center == <<0, 0>>

\* a query is a sequence of tokens: a blank or a word
Tokens == {" ", "pizza", "Food"}
Queries == UNION {[1..n -> Tokens] : n \in 0..MaxQueryLen}

\* arguments the callers pass
DistanceCategories == {"restaurants", "pizza"}
CategoryArgs == {NONE, "restaurants"}
CategoryOnlyArgs == {"restaurants", "pizza"}
MaxResultsChoices == {1, maxSearchResults}

\* two invocations of searchLocationsByDistanceAndPopularity that run
\* concurrently
Searches == {1, 2}

VARIABLES
    fn,             \* the aggregated search that was called
    phase,          \* "idle" | "base" | "extra" | "running" | "done" | "failed"
                    \* (failed: the search threw to its caller)
    query,          \* argument: the query
    category,       \* argument: the category (NONE when absent)
    location,       \* argument: the reference coordinate (NoLocation when absent)
    maxResults,     \* argument of the distance search
    bounds,         \* argument of the distance search (NoBounds when absent)
    pending,        \* number of provider calls launched and not yet completed
    todo,           \* strategies a sequential search has still to launch
    allResults,     \* the accumulator (additionalResults in the extended search)
    seenPlaceIds,   \* the identifiers accepted so far
    baseResults,    \* searchLocationsExtended: what searchLocations resolved with
    result,         \* the list the search resolved with
    providerCalls,  \* history: provider calls issued by the search
    inserted,       \* history: the accumulator in insertion order
    arrivedIds,     \* history: identifiers delivered so far
    keptLate,       \* history: identifiers kept from an arrival after their first
    firstPassing,   \* history: per identifier, the first delivered record that
                    \* passed the search's filters
    duplicateDropped, \* history: a record was delivered whose identifier was
                    \* already kept with other fields
    idlessPassed,   \* history: a record without identifier that passes the
                    \* filters was delivered
    sdkLoaded,      \* the provider SDK (the global google) was loaded when the
                    \* search was called
    callFailed,     \* history: a strategy's adapter call rejected
    \* the GoogleMap component
    searchQuery,    \* prop: the query App holds
    mapInstance,    \* mapInstanceRef.current is set
    isLoading,      \* state
    error,          \* state (NONE: null)
    searchResults,  \* state: the locations the results panel lists
    textSearches,   \* ModernPlacesAPI.textSearch calls in flight, oldest first
    shownBounds,    \* history: the viewport bounds of the search on display
    searchesStarted, \* history: text searches performSearch has started
    apiKey,         \* config.google.apiKey
    initState,      \* the initialisation effect: "mounted" (it has not run)
                    \* | "keyMissing" | "loading" (initMap went past the key
                    \* check)
    inits,          \* the runs of initMap that went past the key check, in
                    \* the order they started: the isLoading of their
                    \* closure, their timer, how far they are, and their
                    \* calls of onError
    currentTheme,   \* state
    mapsCreated,    \* history: Map instances constructed
    useSimpleMap,   \* App state: SimpleMap (demo mode) is rendered
    latestSeq,      \* history: the number of the search started last, 0 once
                    \* the query was cleared
    latestList,     \* history: what the search started last resolved to
    lastOutcome,    \* history: how the search that completed last ended,
                    \* NONE while none has completed since the last start
    \* calculateScore on its own
    distances,      \* two distances in km
    scores,         \* their scores (<<>> before they are computed)
    \* the ModernPlacesAPI adapter on its own
    adapterCalls,   \* the calls of textSearch, nearbySearch and
                    \* findPlaceFromQuery, in call order, with their promise
    pageAcc,        \* per call, its closure's allResults
    received,       \* history: per call, the pages the provider delivered to
                    \* it with status OK, concatenated in arrival order
    searchAccs,     \* per concurrent aggregated search, its allResults and
                    \* seenPlaceIds
    handed,         \* history: per search, the identifiers its own adapter
                    \* calls resolved with
    \* convertToLocation on its own
    providerPlace,  \* the record the provider answered with
    source,         \* what turns it into a GeocodingResult: "adapter" |
                    \* "geocodeAddress" | "direct" (handed over as it is)
    displayed,      \* <<>>, then <<what convertToLocation returned>>
    \* one distance search replayed in every completion order
    arrivals,       \* what its two provider calls resolve with
    orderArgs,      \* its arguments category, maxResults, bounds
    outcomes,       \* per completion order, the accumulator before the sort
                    \* and the returned list ({} before the replay)
    \* the classifiers and the category switches on their own
    typedQuery,     \* the query handed to both classifiers
    givenCategory,  \* the category handed to every search
    classification, \* <<>>, then <<what the classifiers and the switches
                    \* returned>>
    \* the SearchBar component
    inputQuery,     \* state query: the text of the input, a sequence of
                    \* characters
    isFocused,      \* state
    suggestions,    \* state: <<>>, or <<q>> for the suggestions found for q
    isLoadingSuggestions, \* state
    timers,         \* the pending timers of the suggestions effect, with the
                    \* query and isFocused of their closure and their age
    suggesting,     \* the calls of getSuggestions that await a provider
    sinceChange,    \* history: ms since query or isFocused changed last
    periodRequests, \* history: suggestion requests issued since then
    lastIssued,     \* history: <<>>, or <<the suggestion request issued
                    \* last, with the input's state at that moment>>
    \* App's selection and the Sidebar component
    selectedLocation, \* App state: <<>> (null), or <<the location>>
    isSidebarOpen,  \* App state: Sidebar is mounted
    detailCalls,    \* the calls of getDetailedPlaceInfo in flight, oldest
                    \* first
    directions,     \* Sidebar state: <<>> (null), or <<the route>>
    isLoadingDirections, \* Sidebar state
    routeCalls,     \* the calls of getDirections in flight, oldest first
    sidebarMounts,  \* history: how often Sidebar was mounted
    lastSelected    \* history: the location the user selected last

inputVars == <<fn, query, category, location, maxResults, bounds, sdkLoaded>>
histVars == <<providerCalls, inserted, arrivedIds, keptLate, firstPassing,
             duplicateDropped, idlessPassed, callFailed>>
searchVars == <<fn, phase, query, category, location, maxResults, bounds,
                pending, todo, allResults, seenPlaceIds, baseResults, result,
                providerCalls, inserted, arrivedIds, keptLate, firstPassing,
                duplicateDropped, idlessPassed, sdkLoaded, callFailed>>
initVars == <<inits, currentTheme, mapsCreated>>
mapVars == <<searchQuery, mapInstance, isLoading, error, searchResults,
             textSearches, shownBounds, searchesStarted, apiKey, initState,
             useSimpleMap, latestSeq, latestList, lastOutcome, initVars>>
scoreVars == <<distances, scores>>
adapterVars == <<adapterCalls, pageAcc, received, searchAccs, handed>>
convertVars == <<providerPlace, source, displayed>>
orderVars == <<arrivals, orderArgs, outcomes>>
classifyVars == <<typedQuery, givenCategory, classification>>
\* the parts that follow the replayed distance search
suggestVars == <<inputQuery, isFocused, suggestions, isLoadingSuggestions,
                 timers, suggesting, sinceChange, periodRequests, lastIssued>>
sidebarVars == <<selectedLocation, isSidebarOpen, detailCalls, directions,
                 isLoadingDirections, routeCalls, sidebarMounts, lastSelected>>
laterVars == <<classifyVars, suggestVars, sidebarVars>>
vars == <<searchVars, mapVars, scoreVars, adapterVars, convertVars, orderVars,
          laterVars>>
\* what the actions of one part leave alone
notSearch == <<mapVars, scoreVars, adapterVars, convertVars, orderVars,
    laterVars>>
notMap == <<searchVars, scoreVars, adapterVars, convertVars, orderVars,
    laterVars>>
notScore == <<searchVars, mapVars, adapterVars, convertVars, orderVars,
    laterVars>>
notAdapter == <<searchVars, mapVars, scoreVars, convertVars, orderVars,
    laterVars>>
notConvert == <<searchVars, mapVars, scoreVars, adapterVars, orderVars,
    laterVars>>
notOrder == <<searchVars, mapVars, scoreVars, adapterVars, convertVars,
    laterVars>>
earlierVars == <<searchVars, mapVars, scoreVars, adapterVars, convertVars,
                 orderVars>>
notClassify == <<earlierVars, suggestVars, sidebarVars>>
notSidebar == <<earlierVars, classifyVars, suggestVars>>
\* the GoogleMap component but for the query App hands it
mapVarsButQuery ==
    <<mapInstance, isLoading, error, searchResults, textSearches, shownBounds,
      searchesStarted, apiKey, initState, useSimpleMap, latestSeq, latestList,
      lastOutcome, initVars>>
notSuggest == <<searchVars, scoreVars, adapterVars, convertVars, orderVars,
                classifyVars, sidebarVars>>

(***************************************************************************)
(* Geo math                                                                *)
(***************************************************************************)
Max(a, b) == IF a >= b THEN a ELSE b
Min(a, b) == IF a <= b THEN a ELSE b

\* largest n with n * n <= x
ISqrt(x) == CHOOSE n \in 0..x : n * n <= x /\ (n + 1) * (n + 1) > x

\* great-circle distance in km (here: on the tangent plane, in whole km)
calculateDistance(lat1, lng1, lat2, lng2) ==
    ISqrt((lat2 - lat1) * (lat2 - lat1) + (lng2 - lng1) * (lng2 - lng1))

\* variant: the score is not cut at zero
normalizedDistanceUnclamped(distance) == ScoreRangeKm - distance

\* 50 * Math.max(0, 1 - distance / 50)
normalizedDistance(distance) == Max(0, ScoreRangeKm - distance)

\* variant: the provider rating is weighted into the score
calculateScorePopularity(loc, place) ==
    normalizedDistance(calculateDistance(loc[1], loc[2], place.lat, place.lng))
    + 10 * place.rating

calculateScore(loc, place) ==
    normalizedDistance(calculateDistance(loc[1], loc[2], place.lat, place.lng))

isWithinBounds(b, lat, lng) ==
    IF b = NoBounds THEN TRUE
    ELSE /\ lat >= b.sw[1] /\ lat <= b.ne[1]
         /\ lng >= b.sw[2] /\ lng <= b.ne[2]

(***************************************************************************)
(* Queries                                                                 *)
(***************************************************************************)
\* String.prototype.toLowerCase on one token
toLowerCase(token) ==
    CASE token = "Food" -> "food"
      [] token = "Hotels" -> "hotels"
      [] OTHER -> token

\* word.includes(keyword) for the words a query is made of: the keyword is a
\* substring of the word
hasSubstring(word, keyword) ==
    \/ word = keyword
    \/ <<word, keyword>> \in {<<"hotels", "hotel">>, <<"coffee shop", "coffee">>}

\* lowerQuery.includes(keyword)
includes(q, keyword) ==
    \E k \in 1..Len(q) : hasSubstring(toLowerCase(q[k]), keyword)

\* String.prototype.trim: the blanks at both ends are dropped
RECURSIVE trimStart(_)
trimStart(q) ==
    IF q # <<>> /\ Head(q) = " " THEN trimStart(Tail(q)) ELSE q

RECURSIVE trimEnd(_)
trimEnd(q) ==
    IF q # <<>> /\ q[Len(q)] = " " THEN trimEnd(SubSeq(q, 1, Len(q) - 1)) ELSE q

trim(q) == trimEnd(trimStart(q))

(***************************************************************************)
(* Category detection, category -> provider type, and the tag filter       *)
(***************************************************************************)
\* searchLocations: auto-detect the category when none is given
detectedCategory(q, cat) ==
    IF cat # NONE THEN cat
    ELSE IF includes(q, "restaurant") \/ includes(q, "food") \/ includes(q, "dining")
    THEN "restaurants"
    ELSE IF includes(q, "hotel") \/ includes(q, "lodging")
            \/ includes(q, "accommodation")
    THEN "hotels"
    ELSE IF includes(q, "attraction") \/ includes(q, "tourist")
            \/ includes(q, "museum")
    THEN "attractions"
    ELSE IF includes(q, "shopping") \/ includes(q, "mall") \/ includes(q, "store")
    THEN "shopping"
    ELSE IF includes(q, "cafe") \/ includes(q, "coffee")
            \/ includes(q, "coffee shop")
    THEN "cafes"
    ELSE NONE

\* the switch of searchLocations, searchLocationsExtended and getNearbyPlaces
placeTypeOf(cat) ==
    CASE cat = "restaurants" -> "restaurant"
      [] cat = "hotels" -> "lodging"
      [] cat = "attractions" -> "tourist_attraction"
      [] cat = "shopping" -> "shopping_mall"
      [] cat = "cafes" -> "cafe"
      [] OTHER -> NONE

\* the switch of searchByCategory, with its default
placeTypeOfCategory(cat) ==
    IF placeTypeOf(cat) = NONE THEN "establishment" ELSE placeTypeOf(cat)

\* the switch of searchLocationsByDistanceAndPopularity
placeTypeOfDistance(cat) ==
    CASE cat \in {"restaurants", "restaurant"} -> "restaurant"
      [] cat \in {"hotels", "lodging"} -> "lodging"
      [] cat \in {"attractions", "tourist_attraction"} -> "tourist_attraction"
      [] cat \in {"shopping", "shopping_mall", "store"} -> "shopping_mall"
      [] cat \in {"cafes", "cafe"} -> "cafe"
      [] cat = "establishment" -> "establishment"
      [] OTHER -> NONE

\* the switch inside place.types.some(...) of searchLocations,
\* searchLocationsExtended and searchByCategory
tagAccepted(placeType, type) ==
    CASE placeType = "restaurant" ->
            type \in {"restaurant", "food", "meal_takeaway", "meal_delivery"}
      [] placeType = "lodging" -> type \in {"lodging", "hotel"}
      [] placeType = "tourist_attraction" ->
            type \in {"tourist_attraction", "point_of_interest"}
      [] placeType = "shopping_mall" ->
            type \in {"shopping_mall", "store", "shopping"}
      [] placeType = "cafe" -> type \in {"cafe", "food"}
      [] OTHER -> TRUE

\* the same switch with the 'establishment' case of the distance search
tagAcceptedDistance(placeType, type) ==
    IF placeType = "establishment"
    THEN type \in {"establishment", "point_of_interest", "store", "restaurant",
                   "lodging", "tourist_attraction", "cafe", "food"}
    ELSE tagAccepted(placeType, type)

\* place.types.some(type => ...)
isCorrectType(placeType, types) ==
    \E k \in 1..Len(types) : tagAccepted(placeType, types[k])

isCorrectTypeDistance(placeType, types) ==
    \E k \in 1..Len(types) : tagAcceptedDistance(placeType, types[k])

(***************************************************************************)
(* addUniqueResults: one iteration of places.forEach in each search;       *)
(* acc is [all |-> the accumulator, seen |-> seenPlaceIds]                 *)
(***************************************************************************)
push(acc, place) ==
    [all |-> Append(acc.all, place), seen |-> acc.seen \cup {place.place_id}]

\* searchLocations (placeType from the detected category) and
\* searchLocationsExtended (placeType from the category argument)
addUniqueSearchLocations(placeType, acc, place) ==
    IF place.place_id # "" /\ place.place_id \notin acc.seen
    THEN IF /\ placeType # NONE
            /\ Len(place.types) > 0
            /\ ~isCorrectType(placeType, place.types)
         THEN acc
         ELSE push(acc, place)
    ELSE acc

\* variant: seenPlaceIds is not consulted
addUniqueExtendedUnseen(cat, acc, place) ==
    IF place.place_id # ""
    THEN LET placeType == IF cat # NONE THEN placeTypeOf(cat) ELSE NONE IN
         IF /\ placeType # NONE
            /\ Len(place.types) > 0
            /\ ~isCorrectType(placeType, place.types)
         THEN acc
         ELSE push(acc, place)
    ELSE acc

addUniqueExtended(cat, acc, place) ==
    IF place.place_id # "" /\ place.place_id \notin acc.seen
    THEN LET placeType == IF cat # NONE THEN placeTypeOf(cat) ELSE NONE IN
         IF /\ placeType # NONE
            /\ Len(place.types) > 0
            /\ ~isCorrectType(placeType, place.types)
         THEN acc
         ELSE push(acc, place)
    ELSE acc

\* variant: the tag filter is left out
addUniqueCategoryUnfiltered(placeType, acc, place) ==
    IF place.place_id # "" /\ place.place_id \notin acc.seen
    THEN push(acc, place)
    ELSE acc

\* searchByCategory: placeType is always set
addUniqueCategory(placeType, acc, place) ==
    IF place.place_id # "" /\ place.place_id \notin acc.seen
    THEN IF Len(place.types) > 0 /\ ~isCorrectType(placeType, place.types)
         THEN acc
         ELSE push(acc, place)
    ELSE acc

\* variant: a later record replaces the kept record of the same identifier
addUniqueDistanceLastWins(cat, b, acc, place) ==
    IF place.place_id # "" /\ place.place_id \in acc.seen
    THEN [all |-> [k \in 1..Len(acc.all) |->
                     IF acc.all[k].place_id = place.place_id
                     THEN place ELSE acc.all[k]],
          seen |-> acc.seen]
    ELSE IF place.place_id # ""
    THEN LET placeType == placeTypeOfDistance(cat) IN
         IF /\ placeType # NONE
            /\ Len(place.types) > 0
            /\ ~isCorrectTypeDistance(placeType, place.types)
         THEN acc
         ELSE IF ~isWithinBounds(b, place.lat, place.lng)
         THEN acc
         ELSE push(acc, place)
    ELSE acc

\* variant: the identifier is marked as seen before the filters
addUniqueDistanceSeenFirst(cat, b, acc, place) ==
    IF place.place_id # "" /\ place.place_id \notin acc.seen
    THEN LET placeType == placeTypeOfDistance(cat)
             marked == [all |-> acc.all,
                        seen |-> acc.seen \cup {place.place_id}]
         IN
         IF /\ placeType # NONE
            /\ Len(place.types) > 0
            /\ ~isCorrectTypeDistance(placeType, place.types)
         THEN marked
         ELSE IF ~isWithinBounds(b, place.lat, place.lng)
         THEN marked
         ELSE push(acc, place)
    ELSE acc

\* searchLocationsByDistanceAndPopularity
addUniqueDistance(cat, b, acc, place) ==
    IF place.place_id # "" /\ place.place_id \notin acc.seen
    THEN LET placeType == placeTypeOfDistance(cat) IN
         IF /\ placeType # NONE
            /\ Len(place.types) > 0
            /\ ~isCorrectTypeDistance(placeType, place.types)
         THEN acc
         ELSE IF ~isWithinBounds(b, place.lat, place.lng)
         THEN acc
         ELSE push(acc, place)
    ELSE acc

(***************************************************************************)
(* allResults.sort((a, b) => calculateScore(b) - calculateScore(a)):       *)
(* Array.prototype.sort is stable                                          *)
(***************************************************************************)
\* variant: x goes before the elements whose score equals its own
RECURSIVE insertByScoreBeforeEqual(_, _, _)
insertByScoreBeforeEqual(loc, sorted, x) ==
    IF sorted = <<>> THEN <<x>>
    ELSE IF calculateScore(loc, Head(sorted)) - calculateScore(loc, x) > 0
    THEN <<Head(sorted)>> \o insertByScoreBeforeEqual(loc, Tail(sorted), x)
    ELSE <<x>> \o sorted

\* x goes after every element whose score is at least its own
RECURSIVE insertByScore(_, _, _)
insertByScore(loc, sorted, x) ==
    IF sorted = <<>> THEN <<x>>
    ELSE IF calculateScore(loc, Head(sorted)) - calculateScore(loc, x) >= 0
    THEN <<Head(sorted)>> \o insertByScore(loc, Tail(sorted), x)
    ELSE <<x>> \o sorted

RECURSIVE sortFrom(_, _, _)
sortFrom(loc, sorted, rest) ==
    IF rest = <<>> THEN sorted
    ELSE sortFrom(loc, insertByScore(loc, sorted, Head(rest)), Tail(rest))

sortByScore(loc, list) == sortFrom(loc, <<>>, list)

\* Array.prototype.slice(0, n)
slice(list, n) == SubSeq(list, 1, Min(n, Len(list)))

(***************************************************************************)
(* The running search: which addUniqueResults is in force, and what the    *)
(* history records about each delivered record                             *)
(***************************************************************************)
\* the provider type the running search filters with (NONE: no tag filter)
resolvedType ==
    CASE fn = "searchLocations" -> placeTypeOf(detectedCategory(query, category))
      [] fn = "searchLocationsExtended" /\ phase = "base" ->
            placeTypeOf(detectedCategory(query, category))
      [] fn = "searchLocationsExtended" ->
            IF category # NONE THEN placeTypeOf(category) ELSE NONE
      [] fn = "searchByCategory" -> placeTypeOfCategory(category)
      [] OTHER -> placeTypeOfDistance(category)

addUnique(acc, place) ==
    CASE fn = "searchLocations" ->
            addUniqueSearchLocations(resolvedType, acc, place)
      [] fn = "searchLocationsExtended" /\ phase = "base" ->
            addUniqueSearchLocations(resolvedType, acc, place)
      [] fn = "searchLocationsExtended" -> addUniqueExtended(category, acc, place)
      [] fn = "searchByCategory" -> addUniqueCategory(resolvedType, acc, place)
      [] OTHER -> addUniqueDistance(category, bounds, acc, place)

\* some tag of the record is accepted for the provider type
HasAcceptedTag(place) ==
    \E k \in 1..Len(place.types) :
        IF fn = "searchLocationsByDistanceAndPopularity"
        THEN tagAcceptedDistance(resolvedType, place.types[k])
        ELSE tagAccepted(resolvedType, place.types[k])

\* the record passes the filters of the running search: the tag filter, which
\* a record without tags bypasses, and the bounds of the distance search
PassesFilters(place) ==
    /\ resolvedType = NONE \/ place.types = <<>> \/ HasAcceptedTag(place)
    /\ fn = "searchLocationsByDistanceAndPopularity" =>
          isWithinBounds(bounds, place.lat, place.lng)

\* one delivered record: the accumulator step and what the history notes
deliverOne(st, place) ==
    LET acc == addUnique([all |-> st.all, seen |-> st.seen], place)
        id == place.place_id
        kept == (IF phase = "extra" THEN baseResults ELSE <<>>) \o st.all
    IN [all |-> acc.all,
        seen |-> acc.seen,
        arrived |-> IF id = "" THEN st.arrived ELSE st.arrived \cup {id},
        late |-> IF Len(acc.all) > Len(st.all) /\ id \in st.arrived
                 THEN st.late \cup {id} ELSE st.late,
        first |-> IF /\ id # ""
                     /\ PassesFilters(place)
                     /\ ~\E f \in st.first : f.place_id = id
                  THEN st.first \cup {place} ELSE st.first,
        dup |-> \/ st.dup
                \/ \E k \in 1..Len(kept) :
                      kept[k].place_id = id /\ id # "" /\ kept[k] # place,
        idless |-> st.idless \/ (id = "" /\ PassesFilters(place))]

\* addUniqueResults(places): places.forEach
RECURSIVE addUniqueResults(_, _)
addUniqueResults(st, places) ==
    IF places = <<>> THEN st
    ELSE addUniqueResults(deliverOne(st, Head(places)), Tail(places))

\* the strategy's list merged into the current accumulator
merged(resp) ==
    addUniqueResults([all |-> allResults, seen |-> seenPlaceIds,
                      arrived |-> arrivedIds, late |-> keptLate,
                      first |-> firstPassing, dup |-> duplicateDropped,
                      idless |-> idlessPassed], resp)

(***************************************************************************)
(* Specification of the aggregated searches                                *)
(***************************************************************************)
\* no aggregated search has been called
SearchIdle ==
    /\ fn = NONE
    /\ phase = "idle"
    /\ query = <<>>
    /\ category = NONE
    /\ location = NoLocation
    /\ maxResults = maxSearchResults
    /\ bounds = NoBounds
    /\ pending = 0
    /\ todo = <<>>
    /\ allResults = <<>>
    /\ seenPlaceIds = {}
    /\ baseResults = <<>>
    /\ result = <<>>
    /\ providerCalls = 0
    /\ inserted = <<>>
    /\ arrivedIds = {}
    /\ keptLate = {}
    /\ firstPassing = {}
    /\ duplicateDropped = FALSE
    /\ idlessPassed = FALSE
    /\ sdkLoaded = TRUE
    /\ callFailed = FALSE

\* values of config.google.apiKey: empty, the placeholder, a key
ApiKeys == {"", "YOUR_GOOGLE_MAPS_API_KEY_HERE", "AIza"}

\* the GoogleMap component as mounted with the key k in the configuration:
\* the map is being loaded
MountedWith(k) ==
    /\ searchQuery = <<>>
    /\ mapInstance = FALSE
    /\ isLoading = TRUE
    /\ error = NONE
    /\ searchResults = <<>>
    /\ textSearches = <<>>
    /\ shownBounds = NoBounds
    /\ searchesStarted = 0
    /\ apiKey = k
    /\ initState = "mounted"
    /\ inits = <<>>
    /\ currentTheme = "default"
    /\ mapsCreated = 0
    /\ useSimpleMap = FALSE
    /\ latestSeq = 0
    /\ latestList = <<>>
    /\ lastOutcome = NONE

\* with the key of src/config.ts
MapMounted == MountedWith("AIza")

ScoreIdle ==
    /\ distances = <<0, 0>>
    /\ scores = <<>>

\* the adapter has not been called
AdapterIdle ==
    /\ adapterCalls = <<>>
    /\ pageAcc = <<>>
    /\ received = <<>>
    /\ searchAccs = [s \in Searches |-> [all |-> <<>>, seen |-> {}]]
    /\ handed = [s \in Searches |-> {}]

\* a provider record no field of which is undefined; `missing` names the
\* fields of a record that are undefined
NoPlace ==
    [place_id |-> "", name |-> "", formatted_address |-> "",
     lat |-> 0, lng |-> 0, types |-> <<>>, rating |-> 0, missing |-> {}]

\* convertToLocation has not been called
ConvertIdle ==
    /\ providerPlace = NoPlace
    /\ source = "direct"
    /\ displayed = <<>>

\* no distance search is replayed
OrderIdle ==
    /\ arrivals = <<<<>>, <<>>>>
    /\ orderArgs = [category |-> "restaurants", maxResults |-> maxSearchResults,
                    bounds |-> NoBounds]
    /\ outcomes = {}

\* neither classifier has been called
ClassifyIdle ==
    /\ typedQuery = <<>>
    /\ givenCategory = NONE
    /\ classification = <<>>

\* SearchBar as mounted: the suggestions effect of the first render has set
\* its timer
SearchBarMounted ==
    /\ inputQuery = <<>>
    /\ isFocused = FALSE
    /\ suggestions = <<>>
    /\ isLoadingSuggestions = FALSE
    /\ timers = <<[query |-> <<>>, isFocused |-> FALSE, age |-> 0]>>
    /\ suggesting = <<>>
    /\ sinceChange = 0
    /\ periodRequests = 0
    /\ lastIssued = <<>>

\* App as mounted: nothing is selected and the sidebar is closed
NothingSelected ==
    /\ selectedLocation = <<>>
    /\ isSidebarOpen = FALSE
    /\ detailCalls = <<>>
    /\ directions = <<>>
    /\ isLoadingDirections = FALSE
    /\ routeCalls = <<>>
    /\ sidebarMounts = 0
    /\ lastSelected = NONE

\* the parts that follow the classifiers are idle
AfterClassifyIdle == SearchBarMounted /\ NothingSelected

\* the parts that follow the replayed distance search are idle
LaterIdle == ClassifyIdle /\ AfterClassifyIdle

\* the parts up to the replayed distance search are idle
EarlierIdle ==
    /\ SearchIdle
    /\ MapMounted
    /\ ScoreIdle
    /\ AdapterIdle
    /\ ConvertIdle
    /\ OrderIdle

Init ==
    /\ SearchIdle
    /\ MapMounted
    /\ ScoreIdle
    /\ AdapterIdle
    /\ ConvertIdle
    /\ OrderIdle
    /\ LaterIdle

\* strategies 2 and 3 of searchLocations, which follow the text search
strategiesAfterText(placeType, loc) ==
    (IF loc # NoLocation /\ placeType # NONE THEN <<"nearby">> ELSE <<>>)
    \o (IF loc # NoLocation THEN <<"find">> ELSE <<>>)

\* searchLocations(query, category, location) up to its first await:
\* strategy 1, the text search, is in flight
\* Without the SDK searchLocations throws before any call; the extended
\* search catches that, calls searchLocations again and fails with it.
CallSearchLocations ==
    /\ phase = "idle"
    /\ \E f \in {"searchLocations", "searchLocationsExtended"},
          q \in Queries, cat \in CategoryArgs, loc \in {NoLocation, Center},
          sdk \in BOOLEAN :
        /\ fn' = f
        /\ query' = q
        /\ category' = cat
        /\ location' = loc
        /\ sdkLoaded' = sdk
        /\ IF sdk
           THEN /\ phase' = IF f = "searchLocations" THEN "running" ELSE "base"
                /\ todo' = strategiesAfterText(
                              placeTypeOf(detectedCategory(q, cat)), loc)
                /\ pending' = 1
                /\ providerCalls' = 1
           ELSE /\ phase' = "failed"
                /\ UNCHANGED <<todo, pending, providerCalls>>
    /\ UNCHANGED <<maxResults, bounds, allResults, seenPlaceIds, baseResults,
                   result, inserted, arrivedIds, keptLate, firstPassing,
                   duplicateDropped, idlessPassed, callFailed>>
    /\ UNCHANGED notSearch

\* searchByCategory(category, location) up to its first await
\* Without the SDK the adapter rejects each strategy at once; each rejection
\* is caught and the empty accumulator is returned.
CallSearchByCategory ==
    /\ phase = "idle"
    /\ \E cat \in CategoryOnlyArgs, loc \in {NoLocation, Center},
          sdk \in BOOLEAN :
        /\ category' = cat
        /\ location' = loc
        /\ sdkLoaded' = sdk
        /\ IF sdk
           THEN /\ todo' = IF loc # NoLocation THEN <<"nearby">> ELSE <<>>
                /\ phase' = "running"
                /\ pending' = 1
                /\ providerCalls' = 1
                /\ UNCHANGED <<callFailed, result>>
           ELSE /\ callFailed' = TRUE
                /\ result' = slice(allResults, maxSearchResults)
                /\ phase' = "done"
                /\ UNCHANGED <<todo, pending, providerCalls>>
    /\ fn' = "searchByCategory"
    /\ UNCHANGED <<query, maxResults, bounds, allResults, seenPlaceIds,
                   baseResults, inserted, arrivedIds, keptLate,
                   firstPassing, duplicateDropped, idlessPassed>>
    /\ UNCHANGED notSearch

\* text, nearby, find and the four query variations of performSearches
distanceStrategies == 7

\* searchLocationsByDistanceAndPopularity(category, location, maxResults,
\* bounds) up to the await of Promise.all: every strategy is in flight
\* Without the SDK it throws before any call.
CallDistance ==
    /\ phase = "idle"
    /\ \E cat \in DistanceCategories, n \in MaxResultsChoices,
          b \in BoundsChoices, sdk \in BOOLEAN :
        /\ category' = cat
        /\ maxResults' = n
        /\ bounds' = b
        /\ sdkLoaded' = sdk
        /\ IF sdk
           THEN /\ phase' = "running"
                /\ pending' = distanceStrategies
                /\ providerCalls' = distanceStrategies
           ELSE /\ phase' = "failed"
                /\ UNCHANGED <<pending, providerCalls>>
    /\ location' = Center
    /\ fn' = "searchLocationsByDistanceAndPopularity"
    /\ UNCHANGED <<query, todo, allResults, seenPlaceIds, baseResults, result,
                   inserted, arrivedIds, keptLate, firstPassing,
                   duplicateDropped, idlessPassed, callFailed>>
    /\ UNCHANGED notSearch

\* searchLocationsExtended: the text searches with the query variations
\* (queryVariations.slice(1)) and the nearby searches of the broader
\* categories, which need a location
extraStrategies(cat, loc) ==
    (IF cat \in {"restaurants", "hotels", "attractions", "shopping", "cafes"}
     THEN 3 ELSE 0)
    + (IF cat = NONE /\ loc # NoLocation THEN 2 ELSE 0)

\* how a strategy's awaited adapter call can end: it resolves (with every
\* page up to the last, or with the pages received before a non-OK status),
\* or it rejects and the strategy's catch swallows the rejection
Outcomes == {"resolved", "rejected"}

\* the responses a call ending that way hands to addUniqueResults
responsesOf(outcome, responses) ==
    IF outcome = "rejected" THEN {<<>>} ELSE responses

\* a search in which a rejection is not caught around the strategy: the
\* rejection reaches the function's outer catch and the search fails
strategyUncaught(outcome, ph) ==
    IF outcome = "rejected" THEN "failed" ELSE ph

\* every strategy is awaited inside its own try/catch, which logs a rejection
\* and lets the search go on to the phase ph it would have reached anyway
strategyCatch(outcome, ph) == ph

\* searchLocations / searchByCategory: the awaited strategy resolves with
\* resp; the next strategy is launched, or the accumulator is cut and returned
CompleteSequential ==
    /\ fn \in {"searchLocations", "searchByCategory"}
    /\ phase = "running"
    /\ \E outcome \in Outcomes :
       \E resp \in responsesOf(outcome, PlainResponses) :
       \E st \in {merged(resp)} :
        /\ callFailed' = (callFailed \/ outcome = "rejected")
        /\ allResults' = st.all
        /\ seenPlaceIds' = st.seen
        /\ inserted' = st.all
        /\ arrivedIds' = st.arrived
        /\ keptLate' = st.late
        /\ firstPassing' = st.first
        /\ duplicateDropped' = st.dup
        /\ idlessPassed' = st.idless
        /\ IF todo # <<>>
           THEN /\ todo' = Tail(todo)
                /\ providerCalls' = providerCalls + 1
                /\ phase' = strategyCatch(outcome, phase)
                /\ UNCHANGED <<pending, result>>
           ELSE /\ pending' = 0
                /\ result' = slice(st.all, maxSearchResults)
                /\ phase' = strategyCatch(outcome, "done")
                /\ UNCHANGED <<todo, providerCalls>>
    /\ UNCHANGED <<inputVars, baseResults>>
    /\ UNCHANGED notSearch

\* searchLocationsExtended while it awaits searchLocations: as above, and
\* when searchLocations returns the additional strategies are all launched
CompleteBase ==
    /\ fn = "searchLocationsExtended"
    /\ phase = "base"
    /\ \E outcome \in Outcomes :
       \E resp \in responsesOf(outcome, PlainResponses) :
       \E st \in {merged(resp)} :
        LET base == slice(st.all, maxSearchResults)
            extra == extraStrategies(category, location)
        IN
        /\ callFailed' = (callFailed \/ outcome = "rejected")
        /\ inserted' = st.all
        /\ arrivedIds' = st.arrived
        /\ keptLate' = st.late
        /\ firstPassing' = st.first
        /\ duplicateDropped' = st.dup
        /\ idlessPassed' = st.idless
        /\ IF todo # <<>>
           THEN /\ todo' = Tail(todo)
                /\ providerCalls' = providerCalls + 1
                /\ allResults' = st.all
                /\ seenPlaceIds' = st.seen
                /\ phase' = strategyCatch(outcome, phase)
                /\ UNCHANGED <<pending, result, baseResults>>
           ELSE /\ baseResults' = base
                /\ UNCHANGED todo
                /\ IF Len(base) >= 100
                   THEN /\ result' = base
                        /\ phase' = strategyCatch(outcome, "done")
                        /\ pending' = 0
                        /\ UNCHANGED <<allResults, seenPlaceIds, providerCalls>>
                   ELSE /\ allResults' = <<>>
                        /\ seenPlaceIds' = {base[k].place_id : k \in 1..Len(base)}
                        /\ pending' = extra
                        /\ providerCalls' = providerCalls + extra
                        /\ IF extra = 0
                           THEN /\ result' = slice(base, maxSearchResults)
                                /\ phase' = strategyCatch(outcome, "done")
                           ELSE /\ phase' = strategyCatch(outcome, "extra")
                                /\ UNCHANGED result
    /\ UNCHANGED inputVars
    /\ UNCHANGED notSearch

\* searchLocationsExtended: one additional strategy resolves; after the last
\* one the base and the additional results are concatenated and cut
CompleteExtra ==
    /\ fn = "searchLocationsExtended"
    /\ phase = "extra"
    /\ \E outcome \in Outcomes :
       \E resp \in responsesOf(outcome, PlainResponses) :
       \E st \in {merged(resp)} :
        /\ callFailed' = (callFailed \/ outcome = "rejected")
        /\ allResults' = st.all
        /\ seenPlaceIds' = st.seen
        /\ inserted' = baseResults \o st.all
        /\ arrivedIds' = st.arrived
        /\ keptLate' = st.late
        /\ firstPassing' = st.first
        /\ duplicateDropped' = st.dup
        /\ idlessPassed' = st.idless
        /\ pending' = pending - 1
        /\ IF pending' = 0
           THEN /\ result' = slice(baseResults \o st.all, maxSearchResults)
                /\ phase' = strategyCatch(outcome, "done")
           ELSE /\ phase' = strategyCatch(outcome, phase)
                /\ UNCHANGED result
    /\ UNCHANGED <<inputVars, todo, baseResults, providerCalls>>
    /\ UNCHANGED notSearch

\* searchLocationsByDistanceAndPopularity: one strategy resolves; after the
\* last one the accumulator is sorted by score and cut to maxResults
CompleteDistance ==
    /\ fn = "searchLocationsByDistanceAndPopularity"
    /\ phase = "running"
    /\ \E outcome \in Outcomes :
       \E resp \in responsesOf(outcome, Responses) :
       \E st \in {merged(resp)} :
        LET sorted == sortByScore(location, st.all) IN
        /\ callFailed' = (callFailed \/ outcome = "rejected")
        /\ seenPlaceIds' = st.seen
        /\ inserted' = st.all
        /\ arrivedIds' = st.arrived
        /\ keptLate' = st.late
        /\ firstPassing' = st.first
        /\ duplicateDropped' = st.dup
        /\ idlessPassed' = st.idless
        /\ pending' = pending - 1
        /\ IF pending' = 0
           THEN /\ allResults' = sorted
                /\ result' = slice(sorted, maxResults)
                /\ phase' = strategyCatch(outcome, "done")
           ELSE /\ allResults' = st.all
                /\ phase' = strategyCatch(outcome, phase)
                /\ UNCHANGED result
    /\ UNCHANGED <<inputVars, todo, baseResults, providerCalls>>
    /\ UNCHANGED notSearch

Next ==
    \/ CallSearchLocations
    \/ CallSearchByCategory
    \/ CallDistance
    \/ CompleteSequential
    \/ CompleteBase
    \/ CompleteExtra
    \/ CompleteDistance

Spec == Init /\ [][Next]_vars

(***************************************************************************)
(* Specification of the score on its own: calculateScore's arithmetic      *)
(* applied to any two distances                                            *)
(***************************************************************************)
InitScore ==
    /\ LaterIdle
    /\ SearchIdle
    /\ MapMounted
    /\ AdapterIdle
    /\ ConvertIdle
    /\ OrderIdle
    /\ distances \in (0..MaxDistanceKm) \X (0..MaxDistanceKm)
    /\ scores = <<>>

ComputeScores ==
    /\ scores = <<>>
    /\ scores' = <<normalizedDistance(distances[1]),
                   normalizedDistance(distances[2])>>
    /\ UNCHANGED distances
    /\ UNCHANGED notScore

NextScore == ComputeScores

SpecScore == InitScore /\ [][NextScore]_vars

(***************************************************************************)
(* The GoogleMap component: performSearch over ModernPlacesAPI.textSearch  *)
(***************************************************************************)
\* the places a page of the provider holds: one 10 km and one 60 km from the
\* map centre
PagePlaces ==
    {r \in GeocodingResult :
        /\ r.types = <<"park">>
        /\ \/ r.place_id = "p1" /\ r.lat = 10
           \/ r.place_id = "p2" /\ r.lat = 60}

PageSizes == {0, 1, MaxPageSize}

\* the results the provider hands to one invocation of the callback
Pages == UNION {[1..n -> {r}] : n \in PageSizes, r \in PagePlaces}

\* variant: lodging is tested before restaurant
locationTypeLodgingFirst(types) ==
    LET has(tag) == \E k \in 1..Len(types) : types[k] = tag IN
    IF has("lodging") \/ has("hotel") THEN "hotel"
    ELSE IF has("restaurant") \/ has("food") THEN "restaurant"
    ELSE IF has("tourist_attraction") \/ has("point_of_interest")
    THEN "attraction"
    ELSE IF has("establishment") \/ has("store") THEN "business"
    ELSE "other"

\* convertToLocation: the classification of the tags
locationType(types) ==
    LET has(tag) == \E k \in 1..Len(types) : types[k] = tag IN
    IF has("restaurant") \/ has("food") THEN "restaurant"
    ELSE IF has("lodging") \/ has("hotel") THEN "hotel"
    ELSE IF has("tourist_attraction") \/ has("point_of_interest")
    THEN "attraction"
    ELSE IF has("establishment") \/ has("store") THEN "business"
    ELSE "other"

\* x || d for a string field f of the record r: d when the field is
\* undefined or the empty string
orDefault(r, f, d) ==
    IF f \in r.missing \/ r[f] = "" THEN d ELSE r[f]

\* reading a property of undefined
TypeError == [threw |-> "TypeError"]

\* convertToLocation(result), r being its result parameter:
\* result.geometry.location throws when geometry is undefined; name has a
\* default, address has none
convertToLocation(r) ==
    IF "geometry" \in r.missing THEN TypeError
    ELSE [id |-> r.place_id, place_id |-> r.place_id,
          name |-> orDefault(r, "name", "Unknown Location"),
          address |-> IF "formatted_address" \in r.missing THEN NONE
                      ELSE r.formatted_address,
          latitude |-> r.lat, longitude |-> r.lng,
          type |-> locationType(IF "types" \in r.missing THEN <<>>
                                ELSE r.types),
          rating |-> r.rating]

\* the callback of the adapter converts a provider place: every field gets
\* a default (textSearch; nearbySearch, findPlaceFromQuery and getPlaceDetails
\* do the same)
convertedResult(p) ==
    [place_id |-> orDefault(p, "place_id", ""),
     name |-> orDefault(p, "name", "Unknown"),
     formatted_address |-> orDefault(p, "formatted_address",
                                     "No address available"),
     lat |-> IF "geometry" \in p.missing THEN 0 ELSE p.lat,
     lng |-> IF "geometry" \in p.missing THEN 0 ELSE p.lng,
     types |-> IF "types" \in p.missing THEN <<>> ELSE p.types,
     rating |-> p.rating, missing |-> {}]

\* geocodeAddress: the record it resolves with for a geocoder result
geocodeAddress(p) ==
    [place_id |-> orDefault(p, "place_id", ""),
     name |-> orDefault(p, "formatted_address", ""),
     formatted_address |-> orDefault(p, "formatted_address", ""),
     lat |-> p.lat, lng |-> p.lng,
     types |-> IF "types" \in p.missing THEN <<>> ELSE p.types,
     rating |-> p.rating, missing |-> {}]

\* a record of the text search as the adapter resolved it: the provider
\* places of the pages carry neither name nor address
geocodingResultOf(r) ==
    convertedResult([place_id |-> r.place_id, name |-> "",
                     formatted_address |-> "", lat |-> r.lat, lng |-> r.lng,
                     types |-> r.types, rating |-> r.rating,
                     missing |-> {"name", "formatted_address"}])

\* apiResults.map(convertToLocation)
locationsOf(apiResults) ==
    [k \in 1..Len(apiResults) |->
        convertToLocation(geocodingResultOf(apiResults[k]))]

\* the sequence without its i-th element
removeAt(seq, i) == SubSeq(seq, 1, i - 1) \o SubSeq(seq, i + 1, Len(seq))

\* initMap goes past the key check: it sets its 15 s timer, whose callback
\* reads the isLoading of the render the effect belongs to, and awaits the
\* loader
startInit(runs, closureLoading) ==
    Append(runs, [isLoading |-> closureLoading, timer |-> "armed",
                  st |-> "loading", onErrors |-> 0])

\* mapRef.current is set: GoogleMap is mounted and its last render returned
\* the map container, not the loading screen
mapRefAttached == ~useSimpleMap /\ (~isLoading \/ mapInstance)

\* clearTimeout(timeoutId)
clearTimeout(timer) == IF timer = "armed" THEN "cleared" ELSE timer

\* the initialisation effect runs again after a render in which isLoading or
\* currentTheme changed, while GoogleMap is mounted: it calls initMap when
\* no map exists (closureLoading is the isLoading of that render)
effectRunsAgain(runs, mounted, hasMap, closureLoading) ==
    IF mounted /\ ~hasMap THEN startInit(runs, closureLoading) ELSE runs

\* a further run of initMap starts only while fewer than MaxInits have
startsWithinBound(mounted, hasMap) ==
    (mounted /\ ~hasMap) => Len(inits) < MaxInits

\* the initialisation effect runs after the first render and calls initMap:
\* without a configured key it sets the error and returns (onError is not
\* called; the run of the effect that follows does the same); otherwise the
\* loader starts
InitMapStart ==
    /\ initState = "mounted"
    /\ IF apiKey = "" \/ apiKey = "YOUR_GOOGLE_MAPS_API_KEY_HERE"
       THEN /\ error' = "Please set your Google Maps API key in src/config.ts"
            /\ isLoading' = FALSE
            /\ initState' = "keyMissing"
            /\ UNCHANGED inits
       ELSE /\ initState' = "loading"
            /\ inits' = startInit(inits, isLoading)
            /\ UNCHANGED <<error, isLoading>>
    /\ UNCHANGED <<searchQuery, mapInstance, searchResults, textSearches,
                   shownBounds, searchesStarted, apiKey, useSimpleMap,
                   latestSeq, latestList, lastOutcome, currentTheme,
                   mapsCreated>>
    /\ UNCHANGED notMap

\* loader.load() of run i resolves. With the container rendered the Map is
\* constructed and stored in mapInstanceRef; otherwise the error is set. Both
\* branches clear the timer and isLoading, and the effect runs again when
\* isLoading changed. Once GoogleMap is unmounted its ref is null and its
\* state setters do nothing.
LoaderResolves(i) ==
    /\ i <= Len(inits)
    /\ inits[i].st = "loading"
    /\ IF mapRefAttached
       THEN /\ mapInstance' = TRUE
            /\ mapsCreated' = mapsCreated + 1
            /\ isLoading' = FALSE
            /\ inits' = [inits EXCEPT ![i].st = "created",
                                      ![i].timer = clearTimeout(@)]
            /\ UNCHANGED error
       ELSE /\ startsWithinBound(~useSimpleMap /\ isLoading, mapInstance)
            /\ IF useSimpleMap
               THEN UNCHANGED <<error, isLoading>>
               ELSE /\ error' = "Failed to initialize map container"
                    /\ isLoading' = FALSE
            /\ inits' =
                  effectRunsAgain(
                      [inits EXCEPT ![i].st = "noContainer",
                                    ![i].timer = clearTimeout(@)],
                      ~useSimpleMap /\ isLoading, mapInstance, FALSE)
            /\ UNCHANGED <<mapInstance, mapsCreated>>
    /\ UNCHANGED <<searchQuery, searchResults, textSearches, shownBounds,
                   searchesStarted, apiKey, initState, useSimpleMap,
                   latestSeq, latestList, lastOutcome, currentTheme>>
    /\ UNCHANGED notMap

\* setError(message); setIsLoading(false); onError() of run i, in the catch
\* of initMap and in the timer callback: App.handleMapError switches to
\* SimpleMap, which unmounts GoogleMap. When React does not batch the three
\* updates the effect runs again, after setIsLoading, before the unmount.
failsWith(i, message, runs, batched) ==
    /\ startsWithinBound(~batched /\ ~useSimpleMap /\ isLoading, mapInstance)
    /\ useSimpleMap' = TRUE
    /\ IF useSimpleMap
       THEN UNCHANGED <<error, isLoading>>
       ELSE /\ error' = message
            /\ isLoading' = FALSE
    /\ inits' =
          effectRunsAgain([runs EXCEPT ![i].onErrors = @ + 1],
                          ~batched /\ ~useSimpleMap /\ isLoading,
                          mapInstance, FALSE)

\* loader.load() of run i rejects, or the Map constructor throws: the catch
\* of initMap
LoaderRejects(i) ==
    /\ i <= Len(inits)
    /\ inits[i].st = "loading"
    /\ \E batched \in BOOLEAN :
          failsWith(i, "Failed to load Google Maps",
                    [inits EXCEPT ![i].st = "failed",
                                  ![i].timer = clearTimeout(@)],
                    batched)
    /\ UNCHANGED <<searchQuery, mapInstance, searchResults, textSearches,
                   shownBounds, searchesStarted, apiKey, initState,
                   latestSeq, latestList, lastOutcome, currentTheme,
                   mapsCreated>>
    /\ UNCHANGED notMap

\* the 15 s timer of run i fires: its callback does nothing unless the
\* isLoading of its closure is true
InitTimeout(i) ==
    /\ i <= Len(inits)
    /\ inits[i].timer = "armed"
    /\ IF inits[i].isLoading
       THEN \E batched \in BOOLEAN :
               failsWith(i, "Map loading timed out",
                         [inits EXCEPT ![i].timer = "fired"], batched)
       ELSE /\ inits' = [inits EXCEPT ![i].timer = "fired"]
            /\ UNCHANGED <<error, isLoading, useSimpleMap>>
    /\ UNCHANGED <<searchQuery, mapInstance, searchResults, textSearches,
                   shownBounds, searchesStarted, apiKey, initState,
                   latestSeq, latestList, lastOutcome, currentTheme,
                   mapsCreated>>
    /\ UNCHANGED notMap

Themes == {"default", "dark"}

\* the search effect, which runs after a render in which performSearch
\* changed (searchQuery changed, or currentTheme through addMarkers):
\* performSearch up to its await of textSearch, for the query q (b is what
\* map.getBounds() returns). The map was constructed with a centre, so
\* getCenter() is defined. The effect does nothing while no map exists, and
\* once SimpleMap is rendered no GoogleMap is mounted to search.
searchEffect(q, b) ==
    IF ~mapInstance \/ useSimpleMap
    THEN UNCHANGED <<isLoading, error, searchResults, textSearches,
                     shownBounds, searchesStarted, latestSeq,
                     latestList, lastOutcome>>
    ELSE IF trim(q) # <<>>
    THEN /\ searchesStarted < MaxSearches
         /\ isLoading' = TRUE
         /\ error' = NONE
         /\ textSearches' =
               Append(textSearches,
                      [query |-> q, searchBounds |-> b,
                       allResults |-> <<>>, pages |-> 0,
                       seq |-> searchesStarted + 1, stage |-> "text"])
         /\ searchesStarted' = searchesStarted + 1
         /\ latestSeq' = searchesStarted + 1
         /\ latestList' = <<>>
         /\ lastOutcome' = NONE
         /\ UNCHANGED <<searchResults, shownBounds>>
    ELSE /\ searchResults' = <<>>
         /\ error' = NONE
         /\ shownBounds' = NoBounds
         /\ latestSeq' = 0
         /\ latestList' = <<>>
         /\ lastOutcome' = NONE
         /\ UNCHANGED <<isLoading, textSearches, searchesStarted>>

\* App.handleSearch(q) and the search effect it triggers
HandleSearch ==
    /\ \E q \in Queries, b \in BoundsChoices :
        /\ q # searchQuery
        /\ searchQuery' = q
        /\ searchEffect(q, b)
    /\ UNCHANGED <<mapInstance, apiKey, initState, useSimpleMap, initVars>>
    /\ UNCHANGED notMap

\* changeTheme(theme), from the theme selector over the map container:
\* currentTheme changes, the initialisation effect runs again, and so does
\* the search effect (addMarkers, and with it performSearch, depends on
\* currentTheme)
ChangeTheme ==
    /\ mapRefAttached
    /\ startsWithinBound(initState = "loading", mapInstance)
    /\ \E theme \in Themes \ {currentTheme} : currentTheme' = theme
    /\ inits' = IF initState = "loading"
                THEN effectRunsAgain(inits, TRUE, mapInstance, isLoading)
                ELSE inits
    /\ \E b \in BoundsChoices : searchEffect(searchQuery, b)
    /\ UNCHANGED <<searchQuery, mapInstance, apiKey, initState, useSimpleMap,
                   mapsCreated>>
    /\ UNCHANGED notMap

\* performSearch after its awaits, for the search `call` that resolved to
\* apiResults: the list is converted and displayed
SearchResolved(i, apiResults) ==
    LET call == textSearches[i] IN
    /\ textSearches' = removeAt(textSearches, i)
    /\ searchResults' = locationsOf(apiResults)
    /\ isLoading' = FALSE
    /\ shownBounds' = call.searchBounds
    /\ latestList' = IF call.seq = latestSeq THEN locationsOf(apiResults)
                     ELSE latestList
    /\ lastOutcome' = IF apiResults = <<>> THEN "empty" ELSE "results"
    /\ UNCHANGED error

\* the provider invokes the callback of text search i with a status, a page
\* and its pagination; when the search resolves, performSearch goes on with
\* the accumulated list
TextSearchCallback ==
    /\ \E i \in 1..Len(textSearches), status \in {"OK", "ZERO_RESULTS"},
          results \in Pages, hasNextPage \in BOOLEAN :
        LET call == textSearches[i]
            acc == IF status = "OK" THEN call.allResults \o results
                   ELSE call.allResults
        IN
        /\ call.stage = "text"
        /\ status # "OK" => (results = <<>> /\ ~hasNextPage)
        /\ hasNextPage => call.pages + 1 < MaxPages
        /\ IF status = "OK" /\ hasNextPage /\ Len(acc) < paginationLimit
           THEN /\ textSearches' =
                      [textSearches EXCEPT ![i] =
                          [call EXCEPT !.allResults = acc,
                                       !.pages = call.pages + 1]]
                /\ UNCHANGED <<searchResults, isLoading, shownBounds, error,
                               latestList, lastOutcome>>
           ELSE SearchResolved(i, acc)
    /\ UNCHANGED <<searchQuery, mapInstance, searchesStarted, apiKey,
                   initState, useSimpleMap, latestSeq, initVars>>
    /\ UNCHANGED notMap

\* the textSearch promise of search i rejects before any page (the executor
\* threw, or found the SDK missing): the inner catch of performSearch calls
\* searchLocationsByDistanceAndPopularity
TextSearchRejects ==
    /\ \E i \in 1..Len(textSearches) :
        /\ textSearches[i].stage = "text"
        /\ textSearches[i].pages = 0
        /\ textSearches' = [textSearches EXCEPT ![i].stage = "fallback"]
    /\ UNCHANGED <<searchQuery, mapInstance, isLoading, error, searchResults,
                   shownBounds, searchesStarted, apiKey, initState,
                   useSimpleMap, latestSeq, latestList, lastOutcome, initVars>>
    /\ UNCHANGED notMap

\* what the fallback search can resolve with
FallbackResults == {results \in Pages : Len(results) <= 1}

\* the fallback search of search i settles: it resolves, or it throws and
\* the outer catch of performSearch sets the error; finally isLoading is
\* cleared
FallbackSettles ==
    /\ \E i \in 1..Len(textSearches), threw \in BOOLEAN,
          apiResults \in FallbackResults :
        /\ textSearches[i].stage = "fallback"
        /\ threw => apiResults = <<>>
        /\ IF threw
           THEN /\ textSearches' = removeAt(textSearches, i)
                /\ error' =
                      "Search failed. Please check your API key and try again."
                /\ isLoading' = FALSE
                /\ latestList' = IF textSearches[i].seq = latestSeq
                                 THEN searchResults ELSE latestList
                /\ lastOutcome' = "failed"
                /\ UNCHANGED <<searchResults, shownBounds>>
           ELSE SearchResolved(i, apiResults)
    /\ UNCHANGED <<searchQuery, mapInstance, searchesStarted, apiKey,
                   initState, useSimpleMap, latestSeq, initVars>>
    /\ UNCHANGED notMap

NextMap ==
    \/ InitMapStart
    \/ \E i \in 1..MaxInits : LoaderResolves(i)
    \/ \E i \in 1..MaxInits : LoaderRejects(i)
    \/ \E i \in 1..MaxInits : InitTimeout(i)
    \/ ChangeTheme
    \/ HandleSearch
    \/ TextSearchCallback
    \/ TextSearchRejects
    \/ FallbackSettles

\* the component mounted with any value of the key in the configuration
InitMap ==
    /\ LaterIdle
    /\ SearchIdle
    /\ ScoreIdle
    /\ AdapterIdle
    /\ ConvertIdle
    /\ OrderIdle
    /\ \E k \in ApiKeys : MountedWith(k)

SpecMap == InitMap /\ [][NextMap]_vars

\* the component with every pending completion delivered: the effect runs
\* after the first render, every load settles, every armed timer fires, and
\* every provider call of a search settles; what the user does (a query, a
\* theme) is left to the user
SpecMapFair ==
    /\ InitMap
    /\ [][NextMap]_vars
    /\ WF_vars(InitMapStart)
    /\ \A i \in 1..MaxInits :
          /\ WF_vars(LoaderResolves(i) \/ LoaderRejects(i))
          /\ WF_vars(InitTimeout(i))
    /\ WF_vars(TextSearchCallback \/ TextSearchRejects)
    /\ WF_vars(FallbackSettles)

(***************************************************************************)
(* convertToLocation on its own, applied to what the adapter,              *)
(* geocodeAddress or any other producer of a GeocodingResult hands over    *)
(***************************************************************************)
\* the type tags convertToLocation tests, and one it does not
Tags ==
    {"restaurant", "food", "lodging", "hotel", "tourist_attraction",
     "point_of_interest", "establishment", "store", "park"}

TagLists == UNION {[1..n -> Tags] : n \in 0..MaxTags}

\* the fields a provider record can lack
OptionalFields == {"name", "formatted_address", "geometry", "types"}

\* provider records: a place 10 km north of the centre, any tags, any fields
\* undefined (the value of an undefined field is not read)
Places ==
    {[place_id |-> "p1", name |-> "Cafe", formatted_address |-> "1 Main St",
      lat |-> 10, lng |-> 0, types |-> ty, rating |-> 4, missing |-> m] :
        ty \in TagLists, m \in SUBSET OptionalFields}

\* the GeocodingResult handed to convertToLocation
handedOver(src, p) ==
    CASE src = "adapter" -> convertedResult(p)
      [] src = "geocodeAddress" -> geocodeAddress(p)
      [] OTHER -> p

\* a geocoder result always carries its geometry
InitConvert ==
    /\ LaterIdle
    /\ SearchIdle
    /\ MapMounted
    /\ ScoreIdle
    /\ AdapterIdle
    /\ OrderIdle
    /\ providerPlace \in Places
    /\ "types" \in providerPlace.missing => providerPlace.types = <<>>
    /\ source \in {"adapter", "geocodeAddress", "direct"}
    /\ source = "geocodeAddress" => "geometry" \notin providerPlace.missing
    /\ displayed = <<>>

Convert ==
    /\ displayed = <<>>
    /\ displayed' = <<convertToLocation(handedOver(source, providerPlace))>>
    /\ UNCHANGED <<providerPlace, source>>
    /\ UNCHANGED notConvert

NextConvert == Convert

SpecConvert == InitConvert /\ [][NextConvert]_vars

(***************************************************************************)
(* The adapter on its own: ModernPlacesAPI.textSearch, nearbySearch and    *)
(* findPlaceFromQuery, called concurrently on the one shared instance.     *)
(* The pages are the provider's records as the callback converts them.     *)
(* The callers are two concurrent distance searches without type filter    *)
(* and bounds, each awaiting its calls and merging what they resolve with. *)
(***************************************************************************)
\* places.forEach of addUniqueResults on the accumulator of a distance search
\* for category cat within bounds b, over
\* places[lo..hi] in order (the first half, then the second half)
\* (the accumulator after the first half is bound as a value, so that a long
\* page is not evaluated as one nested expression)
RECURSIVE forEachAddUnique(_, _, _, _, _, _)
forEachAddUnique(cat, b, acc, places, lo, hi) ==
    IF lo > hi THEN acc
    ELSE IF lo = hi
    THEN addUniqueDistance(cat, b, acc, places[lo])
    ELSE LET mid == (lo + hi) \div 2 IN
         CHOOSE r \in {forEachAddUnique(cat, b, left, places, mid + 1, hi) :
                          left \in {forEachAddUnique(cat, b, acc, places,
                                                     lo, mid)}} :
             TRUE

\* the adapter call c has settled: the strategy of search c.search that
\* awaited it merges the value (a rejection is caught and adds nothing)
strategyContinues(accs, c) ==
    IF c.st = "resolved"
    THEN [accs EXCEPT ![c.search] = forEachAddUnique("pizza", NoBounds, @, c.value, 1, Len(c.value))]
    ELSE accs

handedTo(h, c) ==
    IF c.st = "resolved"
    THEN [h EXCEPT ![c.search] =
             @ \cup {c.value[k].place_id : k \in 1..Len(c.value)}]
    ELSE h

AdapterOps == {"textSearch", "nearbySearch", "findPlaceFromQuery"}

\* PlacesServiceStatus values the provider reports
Statuses == {"OK", "ZERO_RESULTS", "OVER_QUERY_LIMIT"}

\* resolve(value): a promise settles once, later calls of resolve are ignored
resolve(call, value) ==
    IF call.st \in {"resolved", "rejected"} THEN call
    ELSE [call EXCEPT !.st = "resolved", !.value = value]

\* an accumulator shared by all calls of the instance
pushShared(accs, i, page) == [k \in 1..Len(accs) |-> accs[k] \o page]

\* allResults.push(...convertedResults): allResults is a constant of the
\* promise executor's closure, one per call
push_page(accs, i, page) == [accs EXCEPT ![i] = @ \o page]

\* a non-OK branch that forgets the pages it holds
onFailureEmpty(op, acc) == <<>>

\* what the non-OK branch of the callback resolves with
onFailure(op, acc) == IF op = "findPlaceFromQuery" THEN <<>> ELSE acc

\* the history counters of a call stop at MaxPages
counted(n) == IF n < MaxPages THEN n + 1 ELSE MaxPages

\* a test that leaves out the cap on the accumulated records
continuesWhileNextPage(hasNextPage, acc) == hasNextPage

\* pagination && pagination.hasNextPage && allResults.length < 60
continuesPagination(hasNextPage, acc) ==
    hasNextPage /\ Len(acc) < paginationLimit

\* textSearch(...), nearbySearch(...) or findPlaceFromQuery(...) is called:
\* the promise is rejected at once when the SDK is not loaded, otherwise the
\* first request goes to the provider
AdapterCall ==
    /\ Len(adapterCalls) < MaxAdapterCalls
    /\ \E op \in AdapterOps, sdk \in BOOLEAN, s \in Searches :
        adapterCalls' =
            Append(adapterCalls,
                   [op |-> op, search |-> s,
                    st |-> IF sdk THEN "requested" ELSE "rejected",
                    value |-> <<>>, requests |-> IF sdk THEN 1 ELSE 0,
                    callbacks |-> 0, lastStatus |-> NONE,
                    hasNextPage |-> FALSE])
    /\ pageAcc' = Append(pageAcc, <<>>)
    /\ received' = Append(received, <<>>)
    /\ UNCHANGED <<searchAccs, handed>>
    /\ UNCHANGED notAdapter

\* the provider invokes the callback of call i with a status, a page and
\* its pagination (pagination = paginationInfo is kept in the call)
ProviderCallback(i, status, results, hasNextPage) ==
    /\ LET call == adapterCalls[i]
            heard == [call EXCEPT !.callbacks = counted(@),
                                  !.lastStatus = status,
                                  !.hasNextPage =
                                      IF status = "OK" THEN hasNextPage ELSE @]
            accs == push_page(pageAcc, i, results)
        IN
        /\ call.st = "requested"
        /\ status # "OK" => (results = <<>> /\ ~hasNextPage)
        /\ hasNextPage => call.op # "findPlaceFromQuery"
        /\ IF status # "OK"
           THEN /\ adapterCalls' =
                      [adapterCalls EXCEPT
                          ![i] = resolve(heard, onFailure(call.op, pageAcc[i]))]
                /\ UNCHANGED <<pageAcc, received>>
           ELSE IF call.op = "findPlaceFromQuery"
           THEN /\ adapterCalls' =
                      [adapterCalls EXCEPT ![i] = resolve(heard, results)]
                /\ received' = [received EXCEPT ![i] = @ \o results]
                /\ UNCHANGED pageAcc
           ELSE /\ pageAcc' = accs
                /\ received' = [received EXCEPT ![i] = @ \o results]
                /\ adapterCalls' =
                      [adapterCalls EXCEPT
                          ![i] = IF continuesPagination(hasNextPage, accs[i])
                                 THEN [heard EXCEPT !.st = "delay"]
                                 ELSE resolve(heard, accs[i])]
        /\ searchAccs' = strategyContinues(searchAccs, adapterCalls'[i])
        /\ handed' = handedTo(handed, adapterCalls'[i])
    /\ UNCHANGED notAdapter

\* the provider answers a request; it reports no next page after the page
\* number MaxPages
AdapterCallback ==
    \E i \in 1..Len(adapterCalls), status \in Statuses,
       results \in Pages, hasNextPage \in BOOLEAN :
        /\ hasNextPage => adapterCalls[i].requests < MaxPages
        /\ ProviderCallback(i, status, results, hasNextPage)

\* the 200 ms timer of call i fires: pagination.nextPage() sends the request
\* for the next page
NextPageTimerOf(i) ==
    /\ adapterCalls[i].st = "delay"
    /\ adapterCalls' =
          [adapterCalls EXCEPT ![i].st = "requested",
                               ![i].requests = counted(@)]
    /\ UNCHANGED <<pageAcc, received, searchAccs, handed>>
    /\ UNCHANGED notAdapter

NextPageTimer == \E i \in 1..Len(adapterCalls) : NextPageTimerOf(i)

NextAdapter ==
    \/ AdapterCall
    \/ AdapterCallback
    \/ NextPageTimer

SpecAdapter == Init /\ [][NextAdapter]_vars

\* the adapter with a provider that may report a next page after every page:
\* empty pages and full pages
EndlessPages == {pg \in Pages : Len(pg) \in {0, MaxPageSize}}

\* the provider invokes the callback once for the request of call i
ProviderAnswers(i) ==
    /\ i <= Len(adapterCalls)
    /\ \E status \in Statuses, results \in EndlessPages,
          hasNextPage \in BOOLEAN :
          ProviderCallback(i, status, results, hasNextPage)

\* the timer of call i, set with setTimeout, fires
TimerFires(i) ==
    /\ i <= Len(adapterCalls)
    /\ NextPageTimerOf(i)

NextEndless ==
    \/ AdapterCall
    \/ \E i \in 1..MaxAdapterCalls : ProviderAnswers(i)
    \/ \E i \in 1..MaxAdapterCalls : TimerFires(i)

\* every request is answered and every timer fires
SpecAdapterFair ==
    /\ Init
    /\ [][NextEndless]_vars
    /\ \A i \in 1..MaxAdapterCalls :
          WF_vars(ProviderAnswers(i)) /\ WF_vars(TimerFires(i))

(***************************************************************************)
(* One distance search replayed in every completion order: two of its      *)
(* provider calls resolve with the same responses, in either order, and    *)
(* the accumulator is sorted and cut                                       *)
(***************************************************************************)
\* the orders in which the two calls can complete
CompletionOrders == {<<1, 2>>, <<2, 1>>}

\* the accumulator after the calls completed in the order o
accumulated(args, resps, o) ==
    LET first == resps[o[1]]
        second == resps[o[2]]
        start == [all |-> <<>>, seen |-> {}]
    IN
    forEachAddUnique(args.category, args.bounds,
                     forEachAddUnique(args.category, args.bounds, start,
                                      first, 1, Len(first)),
                     second, 1, Len(second)).all

\* allResults.sort(...).slice(0, maxResults)
returned(args, acc) == slice(sortByScore(Center, acc), args.maxResults)

InitOrder ==
    /\ LaterIdle
    /\ SearchIdle
    /\ MapMounted
    /\ ScoreIdle
    /\ AdapterIdle
    /\ ConvertIdle
    /\ arrivals \in Responses \X Responses
    /\ orderArgs \in [category : DistanceCategories,
                       maxResults : MaxResultsChoices,
                       bounds : BoundsChoices]
    /\ outcomes = {}

\* the search is run once per completion order
Replay ==
    /\ outcomes = {}
    /\ outcomes' =
          {[order |-> o,
            acc |-> acc,
            result |-> returned(orderArgs, acc)] :
              <<o, acc>> \in {<<p, accumulated(orderArgs, arrivals, p)>> :
                                 p \in CompletionOrders}}
    /\ UNCHANGED <<arrivals, orderArgs>>
    /\ UNCHANGED notOrder

NextOrder == Replay

SpecOrder == InitOrder /\ [][NextOrder]_vars

(***************************************************************************)
(* Properties of the aggregated searches                                   *)
(***************************************************************************)
\* C1: in each of the four aggregated searches, whatever the providers
\* resolve with and in whatever order, the accumulator and the returned list
\* hold at most one record per non-empty identifier, the concatenation of the
\* extended search's base and additional results included
C1_OneRecordPerIdentifier ==
    \A list \in {result, inserted, baseResults \o allResults} :
        \A i, j \in 1..Len(list) :
            i < j /\ list[i].place_id # "" =>
                list[i].place_id # list[j].place_id

\* the extended search returned a base and an additional record after an
\* identifier it had already kept was delivered again
C1_Witness ==
    /\ fn = "searchLocationsExtended"
    /\ phase = "done"
    /\ duplicateDropped
    /\ Len(baseResults) > 0
    /\ Len(allResults) > 0
    /\ Len(result) = 2

NeverFiltered ==
    \/ /\ fn \in {"searchLocations", "searchLocationsExtended"}
       /\ placeTypeOf(detectedCategory(query, category)) = NONE
    \/ /\ fn = "searchLocationsByDistanceAndPopularity"
       /\ placeTypeOfDistance(category) = NONE
       /\ bounds = NoBounds

IsBlank(q) == trim(q) = <<>>

\* C4 as stated: for an empty or whitespace-only query the aggregator issues
\* no provider call and yields an empty list
C4_BlankQueryNoProviderCall ==
    (fn \in {"searchLocations", "searchLocationsExtended"} /\ IsBlank(query)) =>
        providerCalls = 0 /\ result = <<>>

\* C5 as stated: the record kept for an identifier is the first record with
\* that identifier to arrive
C5_FirstArrivalKept == keptLate = {}

\* C5: the record kept for an identifier is the first delivered record with
\* that identifier that passed the search's filters; no later record with the
\* identifier replaces or modifies it
C5_FirstPassingArrivalKept ==
    /\ {inserted[k] : k \in 1..Len(inserted)} = firstPassing
    /\ {result[k] : k \in 1..Len(result)} \subseteq firstPassing

\* the distance search kept an identifier from a later arrival because its
\* first arrival was filtered out, and then dropped a differing duplicate
C5_Witness ==
    /\ fn = "searchLocationsByDistanceAndPopularity"
    /\ phase = "done"
    /\ keptLate # {}
    /\ duplicateDropped
    /\ Len(result) > 0

\* C6 as stated: a delivered record without identifier that passes the
\* category and bounds filters is kept in the accumulator
C6_IdentifierlessRecordKept ==
    idlessPassed => \E k \in 1..Len(inserted) : inserted[k].place_id = ""

distanceOf(place) ==
    calculateDistance(location[1], location[2], place.lat, place.lng)

IsDistanceResult ==
    fn = "searchLocationsByDistanceAndPopularity" /\ phase = "done"

C8_StableRanking ==
    LET Position(list, id) ==
            CHOOSE k \in 1..Len(list) : list[k].place_id = id
    IN
    IsDistanceResult =>
        /\ \A i, j \in 1..Len(allResults) :
              (i < j /\ calculateScore(location, allResults[i])
                          = calculateScore(location, allResults[j]))
              => Position(inserted, allResults[i].place_id)
                    < Position(inserted, allResults[j].place_id)
        /\ result = slice(allResults, maxResults)
        /\ {allResults[k] : k \in 1..Len(allResults)}
              = {inserted[k] : k \in 1..Len(inserted)}

\* two places beyond the range, equal in score, the farther one inserted
\* first, are returned in their insertion order
C8_Witness ==
    /\ IsDistanceResult
    /\ Len(inserted) = 2
    /\ result = inserted
    /\ calculateScore(location, result[1]) = calculateScore(location, result[2])
    /\ distanceOf(result[1]) > distanceOf(result[2])

C3_DisplayedWithinBounds ==
    \A k \in 1..Len(searchResults) :
        isWithinBounds(shownBounds, searchResults[k].latitude,
                       searchResults[k].longitude)

\* C10 as stated: the list produced for display never has more than
\* maxSearchResults entries
C10_DisplayedAtMostMax == Len(searchResults) <= maxSearchResults

(***************************************************************************)
(* C11: failures of single strategies are isolated                         *)
(***************************************************************************)
\* the cut the search applies to what it returns
resultLimit ==
    IF fn = "searchLocationsByDistanceAndPopularity"
    THEN maxResults ELSE maxSearchResults

C12_SdkMissingSearchFails ==
    /\ (phase \in {"done", "failed"} /\ ~sdkLoaded) => phase = "failed"
    /\ phase = "failed" => ~sdkLoaded

(***************************************************************************)
(* C13: a non-OK status resolves the adapter call                          *)
(***************************************************************************)
\* C13: a call whose last callback carried a non-OK status is resolved, not
\* rejected, with exactly the pages received before it (nothing when the
\* first page failed, and nothing for findPlaceFromQuery), and every request
\* it sent has been answered: no further page was requested
C13_NonOkStatusResolves ==
    \A i \in 1..Len(adapterCalls) :
        LET call == adapterCalls[i] IN
        (call.lastStatus # NONE /\ call.lastStatus # "OK") =>
            /\ call.st = "resolved"
            /\ call.value = received[i]
            /\ call.callbacks = 1 => call.value = <<>>
            /\ call.requests = call.callbacks

\* a text search received a first page of records and then a non-OK status
C13_Witness ==
    \E i \in 1..Len(adapterCalls) :
        /\ adapterCalls[i].op = "textSearch"
        /\ adapterCalls[i].lastStatus = "OVER_QUERY_LIMIT"
        /\ adapterCalls[i].callbacks = 2
        /\ Len(adapterCalls[i].value) > 0

(***************************************************************************)
(* C16: concurrent searches and calls keep their own accumulators          *)
(***************************************************************************)
\* C16: the page accumulator of every adapter call holds exactly the pages
\* delivered to that call, whatever other calls run on the shared instance;
\* the accumulator and seen set of a search hold only identifiers its own
\* calls resolved with, and a search's seen set is that of its accumulator
C16_AccumulatorsNotShared ==
    /\ \A i \in 1..Len(adapterCalls) :
          /\ adapterCalls[i].op # "findPlaceFromQuery" => pageAcc[i] = received[i]
          /\ adapterCalls[i].st = "resolved" => adapterCalls[i].value = received[i]
    /\ \A s \in Searches :
          /\ searchAccs[s].seen \subseteq handed[s]
          /\ searchAccs[s].seen =
                {searchAccs[s].all[k].place_id : k \in 1..Len(searchAccs[s].all)}

\* two paginated calls of different searches were in flight together, received
\* different places, and each search kept only its own
C16_Witness ==
    /\ Len(adapterCalls) = 2
    /\ adapterCalls[1].search # adapterCalls[2].search
    /\ adapterCalls[1].callbacks = 2 /\ adapterCalls[2].callbacks = 2
    /\ adapterCalls[1].st = "resolved" /\ adapterCalls[2].st = "resolved"
    /\ pageAcc[1] # <<>> /\ pageAcc[2] # <<>>
    /\ searchAccs[1].seen # {} /\ searchAccs[2].seen # {}
    /\ searchAccs[1].seen \cap searchAccs[2].seen = {}

(***************************************************************************)
(* C14: a superseded search                                                *)
(***************************************************************************)
\* C14 as stated: once every call in flight has completed, the displayed
\* list is the one the most recent query resolved to, and it is empty when
\* the query was cleared; what a superseded search resolved to is discarded
C14_SupersededResultsDiscarded ==
    (searchesStarted > 0 /\ textSearches = <<>>) => searchResults = latestList

(***************************************************************************)
(* C17: demo mode without an API key                                       *)
(***************************************************************************)
\* C17 as stated: when the configured key is empty or the placeholder, then
\* once initMap has run the application is in demo mode (useSimpleMap)
C17_DemoModeWithoutKey ==
    (initState # "mounted"
        /\ apiKey \in {"", "YOUR_GOOGLE_MAPS_API_KEY_HERE"}) => useSimpleMap

(***************************************************************************)
(* C18: the 'no results' state and the error state of the panel            *)
(***************************************************************************)
\* the panel shows 'No results found for ...'
noResultsShown ==
    ~isLoading /\ searchResults = <<>> /\ searchQuery # <<>> /\ error = NONE

\* the panel shows the error box
errorShown == searchQuery # <<>> /\ error # NONE

\* the panel lists locations
listShown == searchQuery # <<>> /\ ~isLoading /\ searchResults # <<>>

\* C18 as stated: while the panel is rendered and no search is loading, it
\* is in the 'no results' state after a search that completed with zero
\* results and in the error state after a failed search; the two are never
\* shown together, and after a failed search no list of earlier results is
\* shown
C18_NoResultsAndErrorStates ==
    /\ ~(noResultsShown /\ errorShown)
    /\ (searchQuery # <<>> /\ ~isLoading) =>
          /\ lastOutcome = "empty" => noResultsShown
          /\ lastOutcome = "failed" => (errorShown /\ ~listShown)

(***************************************************************************)
(* C19: the display type                                                   *)
(***************************************************************************)
\* C19: the display type is 'restaurant' when the tags hold restaurant or
\* food; otherwise 'hotel' when they hold lodging or hotel; otherwise
\* 'attraction' when they hold tourist_attraction or point_of_interest;
\* otherwise 'business' when they hold establishment or store; otherwise
\* 'other' (also when the record has no tags)
C19_TypePriority ==
    \A k \in 1..Len(displayed) :
        LET tags == IF "types" \in providerPlace.missing THEN {}
                    ELSE {providerPlace.types[j] : j \in 1..Len(providerPlace.types)}
            d == displayed[k]
        IN
        d # TypeError =>
            d.type =
                CASE tags \cap {"restaurant", "food"} # {} -> "restaurant"
                  [] /\ tags \cap {"restaurant", "food"} = {}
                     /\ tags \cap {"lodging", "hotel"} # {} -> "hotel"
                  [] /\ tags \cap {"restaurant", "food", "lodging", "hotel"} = {}
                     /\ tags \cap {"tourist_attraction", "point_of_interest"} # {}
                       -> "attraction"
                  [] /\ tags \cap {"restaurant", "food", "lodging", "hotel",
                                   "tourist_attraction", "point_of_interest"} = {}
                     /\ tags \cap {"establishment", "store"} # {} -> "business"
                  [] OTHER -> "other"

\* a record tagged lodging before food was converted to a restaurant
C19_Witness ==
    /\ Len(displayed) = 1
    /\ "types" \notin providerPlace.missing
    /\ providerPlace.types = <<"lodging", "food">>
    /\ displayed[1] # TypeError
    /\ displayed[1].type = "restaurant"

(***************************************************************************)
(* C20: defaults and totality of convertToLocation                         *)
(***************************************************************************)
\* C20 as stated: for every provider record convertToLocation returns a
\* display record, whose name is 'Unknown Location' when the record has no
\* name and whose address is 'No address available' when it has no address
C20_TotalWithDefaults ==
    \A k \in 1..Len(displayed) :
        /\ displayed[k] # TypeError
        /\ "name" \in providerPlace.missing => displayed[k].name = "Unknown Location"
        /\ "formatted_address" \in providerPlace.missing =>
              displayed[k].address = "No address available"

(***************************************************************************)
(* C15: completion order and the identifiers of the result                 *)
(***************************************************************************)
\* C15 as stated: for fixed responses the set of identifiers in the returned
\* result is the same for every completion order
C15_SameIdentifiersInEveryOrder ==
    \A x, y \in outcomes :
        {x.result[k].place_id : k \in 1..Len(x.result)}
            = {y.result[k].place_id : k \in 1..Len(y.result)}

\* C15: for fixed responses the set of identifiers accepted into the
\* accumulator is the same for every completion order, every kept record is
\* one of the delivered records, and the returned result holds the same
\* identifiers in every order whenever the cut to maxResults removes nothing
C15_SameIdentifiersBeforeCut ==
    \A x, y \in outcomes :
        LET ids(list) == {list[k].place_id : k \in 1..Len(list)} IN
        /\ ids(x.acc) = ids(y.acc)
        /\ \A k \in 1..Len(x.acc) :
              \E i \in 1..2 : \E j \in 1..Len(arrivals[i]) :
                  x.acc[k] = arrivals[i][j]
        /\ Len(x.acc) <= orderArgs.maxResults => ids(x.result) = ids(y.result)

\* two calls delivered the same identifier with different fields: the orders
\* keep different records, the identifiers are the same, nothing is cut
C15_Witness ==
    \E x, y \in outcomes :
        /\ x.acc # y.acc
        /\ Len(x.acc) = 1 /\ Len(y.acc) = 1
        /\ x.acc[1].place_id = y.acc[1].place_id
        /\ Len(x.result) = 1

(***************************************************************************)
(* The classifiers and the category switches on their own                  *)
(***************************************************************************)
\* GoogleMap.detectCategoryFromQuery with the hotel keywords tested first
detectCategoryFromQueryHotelsFirst(q) ==
    IF includes(q, "hotel") \/ includes(q, "lodging")
       \/ includes(q, "accommodation")
    THEN "hotels"
    ELSE IF includes(q, "restaurant") \/ includes(q, "food")
            \/ includes(q, "dining")
    THEN "restaurants"
    ELSE detectedCategory(q, NONE)

\* GoogleMap.detectCategoryFromQuery (NONE: null)
detectCategoryFromQuery(q) ==
    IF includes(q, "restaurant") \/ includes(q, "food") \/ includes(q, "dining")
    THEN "restaurants"
    ELSE IF includes(q, "hotel") \/ includes(q, "lodging")
            \/ includes(q, "accommodation")
    THEN "hotels"
    ELSE IF includes(q, "attraction") \/ includes(q, "tourist")
            \/ includes(q, "museum")
    THEN "attractions"
    ELSE IF includes(q, "shopping") \/ includes(q, "mall") \/ includes(q, "store")
    THEN "shopping"
    ELSE IF includes(q, "cafe") \/ includes(q, "coffee")
            \/ includes(q, "coffee shop")
    THEN "cafes"
    ELSE NONE

\* the words of the queries handed to the classifiers
ClassifyTokens == {"pizza", "Food", "Hotels", "museum", "mall", "coffee shop"}
ClassifyQueries == UNION {[1..n -> ClassifyTokens] : n \in 0..MaxClassifyLen}

\* the category values a caller hands to a search (NONE: no category)
CategoryValues ==
    {NONE, "restaurants", "hotels", "attractions", "shopping", "cafes",
     "store", "establishment", "pizza"}

InitClassify ==
    /\ EarlierIdle
    /\ AfterClassifyIdle
    /\ typedQuery \in ClassifyQueries
    /\ givenCategory \in CategoryValues
    /\ classification = <<>>

\* both classifiers are applied to the query, and every search's switch to
\* the category that search works with
Classify ==
    /\ classification = <<>>
    /\ classification' =
         <<[googleMap |-> detectCategoryFromQuery(typedQuery),
            searchLocations |-> detectedCategory(typedQuery, NONE),
            placeType |->
              [searchLocations |->
                   placeTypeOf(detectedCategory(typedQuery, givenCategory)),
               searchByCategory |-> placeTypeOfCategory(givenCategory),
               getNearbyPlaces |-> placeTypeOf(givenCategory),
               searchLocationsByDistanceAndPopularity |->
                   placeTypeOfDistance(givenCategory)]]>>
    /\ UNCHANGED <<typedQuery, givenCategory>>
    /\ UNCHANGED notClassify

NextClassify == Classify

SpecClassify == InitClassify /\ [][NextClassify]_vars

\* the categories in the order the specification checks them, with their
\* keywords
CategoryOrder ==
    <<"restaurants", "hotels", "attractions", "shopping", "cafes">>

keywordsOf(cat) ==
    CASE cat = "restaurants" -> {"restaurant", "food", "dining"}
      [] cat = "hotels" -> {"hotel", "lodging", "accommodation"}
      [] cat = "attractions" -> {"attraction", "tourist", "museum"}
      [] cat = "shopping" -> {"shopping", "mall", "store"}
      [] cat = "cafes" -> {"cafe", "coffee", "coffee shop"}

matches(q, cat) == \E kw \in keywordsOf(cat) : includes(q, kw)

\* C21: the classification of a query is the first category, in the order
\* restaurant, hotel, attraction, shopping, cafe, one of whose keywords
\* occurs in the lower-cased query, and no category when none occurs; the
\* classifier of GoogleMap and the one inside searchLocations return the same
\* category.
C21_ClassifiersAgreeInFixedOrder ==
    classification # <<>> =>
      LET c == classification[1]
          hits == {i \in 1..Len(CategoryOrder) :
                      matches(typedQuery, CategoryOrder[i])}
      IN /\ c.googleMap = c.searchLocations
         /\ hits = {} => c.googleMap = NONE
         /\ hits # {} =>
              c.googleMap =
                CategoryOrder[CHOOSE i \in hits : \A j \in hits : i <= j]

\* a query with a restaurant keyword in upper case after a hotel keyword was
\* classified
C21_Witness ==
    /\ classification # <<>>
    /\ typedQuery = <<"Hotels", "Food">>
    /\ classification[1].googleMap = "restaurants"
    /\ classification[1].searchLocations = "restaurants"

\* C22: every category value maps to exactly one provider type, no category
\* and unrecognised strings included, no category maps to 'establishment',
\* and all searches apply the same mapping.
C22_SameTotalMapping ==
    classification # <<>> =>
      LET ty == classification[1].placeType
      IN /\ \A f \in DOMAIN ty : ty[f] # NONE
         /\ \A f, g \in DOMAIN ty : ty[f] = ty[g]
         /\ (givenCategory = NONE /\ classification[1].searchLocations = NONE)
              => \A f \in DOMAIN ty : ty[f] = "establishment"

(***************************************************************************)
(* C23, C27: the pagination of textSearch and nearbySearch                 *)
(***************************************************************************)
paginated(call) == call.op \in {"textSearch", "nearbySearch"}

\* after an OK page the call waits for the next-page timer exactly when the
\* provider reported a next page and fewer than 60 records are accumulated,
\* and is resolved otherwise; a resolved call holds the pages received in
\* arrival order and has no request outstanding
PaginationState ==
    \A i \in 1..Len(adapterCalls) :
        LET call == adapterCalls[i]
            more == call.hasNextPage /\ Len(pageAcc[i]) < paginationLimit
        IN
        paginated(call) =>
            /\ call.st = "delay" => (call.lastStatus = "OK" /\ more)
            /\ (call.st = "resolved" /\ call.lastStatus = "OK") => ~more
            /\ call.lastStatus = "OK" => call.st \in {"delay", "requested", "resolved"}
            /\ (call.st = "requested" /\ call.callbacks > 0) => more
            /\ call.st = "resolved" =>
                  (call.value = received[i] /\ call.requests = call.callbacks)
            /\ call.st = "delay" => call.requests = call.callbacks
            /\ call.st = "requested" => call.requests = call.callbacks + 1

\* a settled call never changes, and a page is requested only by the timer
\* of a call that holds fewer than 60 records
PaginationStep ==
    \A i \in 1..Len(adapterCalls) :
        LET call == adapterCalls[i] IN
        /\ call.st \in {"resolved", "rejected"} => adapterCalls'[i] = call
        /\ adapterCalls'[i].requests > call.requests =>
              /\ call.st = "delay"
              /\ Len(pageAcc[i]) < paginationLimit
              /\ adapterCalls'[i].requests = call.requests + 1

\* C23: after each OK page of textSearch and nearbySearch the next page is
\* requested, after the delay, if and only if the provider reports a next
\* page and fewer than 60 records are accumulated, otherwise the promise
\* resolves; it resolves once, with the received pages in arrival order, and
\* no page is requested after it resolved or once 60 records are reached.
C23_PaginationProtocol == []PaginationState /\ [][PaginationStep]_vars

\* a text search resolved with its two pages, the second requested after the
\* delay, while a nearby search resolved at its first page, which reported a
\* next page and held 60 records or more
C23_Witness ==
    /\ Len(adapterCalls) = 2
    /\ adapterCalls[1].op = "textSearch" /\ adapterCalls[2].op = "nearbySearch"
    /\ adapterCalls[1].st = "resolved" /\ adapterCalls[2].st = "resolved"
    /\ adapterCalls[1].requests = 2 /\ adapterCalls[1].callbacks = 2
    /\ Len(adapterCalls[1].value) = 2
    /\ adapterCalls[2].callbacks = 1 /\ adapterCalls[2].hasNextPage
    /\ Len(adapterCalls[2].value) >= paginationLimit

\* C27: every call of textSearch or nearbySearch settles, whatever the
\* provider answers, when the provider answers every request and every
\* timer fires.
C27_EveryCallSettles ==
    \A i \in 1..MaxAdapterCalls :
        (i <= Len(adapterCalls))
            ~> (i <= Len(adapterCalls)
                /\ adapterCalls[i].st \in {"resolved", "rejected"})

(***************************************************************************)
(* C24, C25, C29: the initialisation of the map                            *)
(***************************************************************************)
\* C24: a run of initMap that has neither succeeded nor failed when its
\* 15 s timer fires sets the timeout error and calls onError; a run that
\* completes first has its timer cancelled; onError is called at most once
\* per run.
C24_TimeoutOncePerInitialisation ==
    \A i \in 1..Len(inits) :
        /\ inits[i].onErrors <= 1
        /\ inits[i].timer = "fired" => inits[i].onErrors >= 1
        /\ (inits[i].st # "loading" /\ inits[i].timer # "fired")
              => inits[i].timer = "cleared"

\* C25: over all re-renders and state changes the initialisation routine is
\* started at most once and at most one Map is created, and after a
\* successful initialisation (before any search) no error message is set.
C25_InitialisedOnce ==
    /\ Len(inits) <= 1
    /\ mapsCreated <= 1
    /\ (mapInstance /\ ~useSimpleMap /\ searchesStarted = 0) => error = NONE

\* a non-empty query is held while the map is being initialised
queryWaitsForMap ==
    /\ trim(searchQuery) # <<>>
    /\ initState = "loading"
    /\ ~mapInstance
    /\ ~useSimpleMap

\* C29: a non-empty query submitted while the map is initialising is
\* eventually searched and the outcome of a search displayed, unless the
\* initialisation fails (demo mode) or the query is cleared.
C29_WaitingQueryEventuallySearched ==
    queryWaitsForMap
        ~> (lastOutcome # NONE \/ useSimpleMap \/ trim(searchQuery) = <<>>)

(***************************************************************************)
(* The SearchBar component: the debounced suggestions                      *)
(***************************************************************************)
InputChars == {"a", " "}
InputQueries == UNION {[1..n -> InputChars] : n \in 0..MaxInputLen}

\* a cleanup that leaves the timer of the previous effect pending
cleanupKeepsTimer(set) == set

\* the cleanup of the suggestions effect: clearTimeout(timeoutId)
cleanup(set) == <<>>

\* a render after the handlers set query to q and isFocused to f: when one
\* of the two changed, the cleanup of the previous effect runs and the
\* effect sets a new timer
rendered(q, f) ==
    /\ inputQuery' = q
    /\ isFocused' = f
    /\ IF <<q, f>> # <<inputQuery, isFocused>>
       THEN /\ timers' = Append(cleanup(timers),
                                [query |-> q, isFocused |-> f, age |-> 0])
            /\ sinceChange' = 0
            /\ periodRequests' = 0
       ELSE UNCHANGED <<timers, sinceChange, periodRequests>>

\* onSearch(q): App.handleSearch sets the query GoogleMap receives; the
\* search effect of GoogleMap does nothing while no map exists
onSearch(q) ==
    /\ ~mapInstance
    /\ searchQuery' = q
    /\ UNCHANGED mapVarsButQuery

\* onChange of the input
OnChange ==
    /\ \E q \in InputQueries \ {inputQuery} : rendered(q, isFocused)
    /\ UNCHANGED <<suggestions, isLoadingSuggestions, suggesting, lastIssued>>
    /\ UNCHANGED <<mapVars, notSuggest>>

\* onFocus of the input
OnFocus ==
    /\ ~isFocused
    /\ rendered(inputQuery, TRUE)
    /\ UNCHANGED <<suggestions, isLoadingSuggestions, suggesting, lastIssued>>
    /\ UNCHANGED <<mapVars, notSuggest>>

\* handleClickOutside
HandleClickOutside ==
    /\ isFocused
    /\ rendered(inputQuery, FALSE)
    /\ UNCHANGED <<suggestions, isLoadingSuggestions, suggesting, lastIssued>>
    /\ UNCHANGED <<mapVars, notSuggest>>

\* handleSubmit
HandleSubmit ==
    /\ trim(inputQuery) # <<>>
    /\ onSearch(trim(inputQuery))
    /\ rendered(inputQuery, FALSE)
    /\ UNCHANGED <<suggestions, isLoadingSuggestions, suggesting, lastIssued>>
    /\ UNCHANGED notSuggest

\* handleClear, from the button shown while the input holds text
HandleClear ==
    /\ inputQuery # <<>>
    /\ onSearch(<<>>)
    /\ rendered(<<>>, isFocused)
    /\ suggestions' = <<>>
    /\ UNCHANGED <<isLoadingSuggestions, suggesting, lastIssued>>
    /\ UNCHANGED notSuggest

\* handleSuggestionClick on a suggestion of the dropdown, which is open
\* while the input is focused
HandleSuggestionClick ==
    /\ isFocused
    /\ suggestions # <<>>
    /\ \E searchTerm \in InputQueries :
          /\ searchTerm # <<>>
          /\ onSearch(searchTerm)
          /\ rendered(searchTerm, FALSE)
    /\ UNCHANGED <<suggestions, isLoadingSuggestions, suggesting, lastIssued>>
    /\ UNCHANGED notSuggest

\* TickMs pass
Tick ==
    /\ sinceChange < searchDebounceMs
       \/ \E k \in 1..Len(timers) : timers[k].age < searchDebounceMs
    /\ sinceChange' = Min(sinceChange + TickMs, searchDebounceMs)
    /\ timers' = [k \in 1..Len(timers) |->
                     [timers[k] EXCEPT
                         !.age = Min(@ + TickMs, searchDebounceMs)]]
    /\ UNCHANGED <<inputQuery, isFocused, suggestions, isLoadingSuggestions,
                   suggesting, periodRequests, lastIssued>>
    /\ UNCHANGED <<mapVars, notSuggest>>

\* a timer that is searchDebounceMs old fires: getSuggestions, up to its
\* await of getAutocompleteSuggestions, with the query and isFocused of the
\* render that set the timer
GetSuggestions ==
    /\ \E k \in 1..Len(timers) :
        LET timer == timers[k] IN
        /\ timer.age = searchDebounceMs
        /\ timers' = removeAt(timers, k)
        /\ IF Len(timer.query) >= 2 /\ timer.isFocused
           THEN /\ Len(suggesting) < MaxSuggesting
                /\ isLoadingSuggestions' = TRUE
                /\ suggesting' =
                      Append(suggesting,
                             [query |-> timer.query, stage |-> "autocomplete"])
                /\ periodRequests' = periodRequests + 1
                /\ lastIssued' =
                      <<[query |-> timer.query, isFocused |-> timer.isFocused,
                         inputQuery |-> inputQuery, inputFocused |-> isFocused,
                         sinceChange |-> sinceChange]>>
                /\ UNCHANGED suggestions
           ELSE /\ suggestions' = <<>>
                /\ UNCHANGED <<isLoadingSuggestions, suggesting,
                               periodRequests, lastIssued>>
    /\ UNCHANGED <<inputQuery, isFocused, sinceChange>>
    /\ UNCHANGED <<mapVars, notSuggest>>

\* a provider call of getSuggestions settles: getAutocompleteSuggestions
\* resolves with predictions, or with none and searchLocations is called;
\* searchLocations resolves or throws
SuggestionsSettle ==
    /\ \E k \in 1..Len(suggesting), found \in BOOLEAN :
        LET call == suggesting[k] IN
        IF call.stage = "autocomplete" /\ ~found
        THEN /\ suggesting' = [suggesting EXCEPT ![k].stage = "searchLocations"]
             /\ UNCHANGED <<suggestions, isLoadingSuggestions>>
        ELSE /\ suggesting' = removeAt(suggesting, k)
             /\ suggestions' = IF found THEN <<call.query>> ELSE <<>>
             /\ isLoadingSuggestions' = FALSE
    /\ UNCHANGED <<inputQuery, isFocused, timers, sinceChange, periodRequests,
                   lastIssued>>
    /\ UNCHANGED <<mapVars, notSuggest>>

NextSuggest ==
    \/ OnChange
    \/ OnFocus
    \/ HandleClickOutside
    \/ HandleSubmit
    \/ HandleClear
    \/ HandleSuggestionClick
    \/ Tick
    \/ GetSuggestions
    \/ SuggestionsSettle

SpecSuggest == Init /\ [][NextSuggest]_vars

\* C26: a suggestion request is issued only once the query and the focus
\* have been unchanged for searchDebounceMs, for the query the input holds,
\* of two characters or more, while the input is focused; a change cancels
\* the pending timer, so at most one timer is pending and at most one
\* request is issued per period in which query and focus do not change.
C26_SuggestionDebounce ==
    /\ Len(timers) <= 1
    /\ periodRequests <= 1
    /\ \A k \in 1..Len(timers) :
          /\ timers[k].query = inputQuery
          /\ timers[k].isFocused = isFocused
          /\ timers[k].age = sinceChange
    /\ lastIssued # <<>> =>
          /\ lastIssued[1].sinceChange >= searchDebounceMs
          /\ lastIssued[1].query = lastIssued[1].inputQuery
          /\ lastIssued[1].inputFocused
          /\ Len(lastIssued[1].query) >= 2

\* a request was issued for a query of two characters, typed in the
\* focused input, and the input was changed again afterwards: the new timer
\* is pending and no request was issued for the new text
C26_Witness ==
    /\ lastIssued # <<>>
    /\ lastIssued[1].query = <<"a", "a">>
    /\ inputQuery # lastIssued[1].query
    /\ Len(inputQuery) = 2
    /\ isFocused
    /\ periodRequests = 0
    /\ Len(timers) = 1
    /\ timers[1].age = 200

(***************************************************************************)
(* App's selection and the Sidebar component                               *)
(***************************************************************************)
\* the locations of the results list, by their id; each has a place_id
Selectable == {"A", "B"}

\* Sidebar is mounted when isSidebarOpen turns true, with its initial state;
\* the state of a Sidebar that stays mounted, or stays away, is kept
sidebarRendered(open) ==
    /\ isSidebarOpen' = open
    /\ IF open /\ ~isSidebarOpen
       THEN /\ sidebarMounts < MaxSidebarMounts
            /\ sidebarMounts' = sidebarMounts + 1
            /\ directions' = <<>>
            /\ isLoadingDirections' = FALSE
       ELSE UNCHANGED <<sidebarMounts, directions, isLoadingDirections>>

\* App.handleLocationSelect(location), up to its await of
\* getDetailedPlaceInfo
HandleLocationSelect ==
    /\ Len(detailCalls) < MaxSelections
    /\ \E id \in Selectable :
          /\ selectedLocation' = <<[id |-> id, enhanced |-> FALSE]>>
          /\ detailCalls' = Append(detailCalls, id)
          /\ lastSelected' = id
    /\ sidebarRendered(TRUE)
    /\ UNCHANGED routeCalls
    /\ UNCHANGED notSidebar

\* getDetailedPlaceInfo(place_id) of call k settles: with the details, which
\* handleLocationSelect converts and selects, or with null (also after an
\* error), which leaves the selection as it is
DetailSettles ==
    /\ \E k \in 1..Len(detailCalls), found \in BOOLEAN :
          /\ detailCalls' = removeAt(detailCalls, k)
          /\ selectedLocation' =
                IF found THEN <<[id |-> detailCalls[k], enhanced |-> TRUE]>>
                ELSE selectedLocation
    /\ UNCHANGED <<isSidebarOpen, directions, isLoadingDirections, routeCalls,
                   sidebarMounts, lastSelected>>
    /\ UNCHANGED notSidebar

\* the header button, setIsSidebarOpen(!isSidebarOpen), and onClose
ToggleSidebar ==
    /\ sidebarRendered(~isSidebarOpen)
    /\ UNCHANGED <<selectedLocation, detailCalls, routeCalls, lastSelected>>
    /\ UNCHANGED notSidebar

\* Sidebar.handleGetDirections, from the button that is disabled while
\* isLoadingDirections, up to its await of getDirections
HandleGetDirections ==
    /\ isSidebarOpen
    /\ selectedLocation # <<>>
    /\ ~isLoadingDirections
    /\ Len(routeCalls) < MaxRouteCalls
    /\ isLoadingDirections' = TRUE
    /\ routeCalls' = Append(routeCalls,
                            [to |-> selectedLocation[1].id,
                             sidebar |-> sidebarMounts])
    /\ UNCHANGED <<selectedLocation, isSidebarOpen, detailCalls, directions,
                   sidebarMounts, lastSelected>>
    /\ UNCHANGED notSidebar

\* getDirections of call k resolves, with a route or with null:
\* setDirections(route) and setIsLoadingDirections(false), which do nothing
\* once the Sidebar that made the call is unmounted
RouteSettles ==
    /\ \E k \in 1..Len(routeCalls), ok \in BOOLEAN :
          /\ routeCalls' = removeAt(routeCalls, k)
          /\ IF isSidebarOpen /\ routeCalls[k].sidebar = sidebarMounts
             THEN /\ directions' = IF ok THEN <<[to |-> routeCalls[k].to]>>
                                   ELSE <<>>
                  /\ isLoadingDirections' = FALSE
             ELSE UNCHANGED <<directions, isLoadingDirections>>
    /\ UNCHANGED <<selectedLocation, isSidebarOpen, detailCalls,
                   sidebarMounts, lastSelected>>
    /\ UNCHANGED notSidebar

NextSidebar ==
    \/ HandleLocationSelect
    \/ DetailSettles
    \/ ToggleSidebar
    \/ HandleGetDirections
    \/ RouteSettles

SpecSidebar == Init /\ [][NextSidebar]_vars

\* C28: once every getDetailedPlaceInfo call has completed, the selected
\* location is the one the user selected last, basic or enhanced.
C28_LastSelectionShown ==
    (detailCalls = <<>> /\ selectedLocation # <<>>)
        => selectedLocation[1].id = lastSelected

\* C30: the directions shown in the sidebar are those to the selected
\* location; the loading flag is true exactly while a directions request is
\* in flight, and at most one request is in flight.
C30_DirectionsOfSelectedLocation ==
    /\ (isSidebarOpen /\ selectedLocation # <<>> /\ directions # <<>>)
          => directions[1].to = selectedLocation[1].id
    /\ isSidebarOpen => (isLoadingDirections <=> routeCalls # <<>>)
    /\ Len(routeCalls) <= 1

====
